---- MODULE Spec2Model ----
(***************************************************************************)
(* Read pipeline of the Okta and SuperSend connectors:                     *)
(* providers/okta/handlers.go and providers/supersend/handlers.go.         *)
(* The helpers of the common, readhelper, jsonquery, httpkit and           *)
(* urlbuilder packages are modelled from the way the handlers use them.    *)
(***************************************************************************)
EXTENDS Integers, Sequences, FiniteSets, TLC

(***************************************************************************)
(* Bounds of the model.                                                    *)
(***************************************************************************)
\* instants are 1..MaxT; 0 is the zero time.Time (IsZero)
MaxT == 4
\* records per page
MaxRecs == 3
\* pages one read goes through
MaxPages == 2

(***************************************************************************)
(* Text values.  A string is kept with the form it was produced in, so     *)
(* that strconv.Itoa / Atoi and time formatting / parsing are conversions  *)
(* between numbers and texts, not identities.                              *)
(*   plain : the literal s                                                 *)
(*   int   : the decimal rendering of n                                    *)
(*   time  : the RFC3339 rendering of instant n with zone suffix s         *)
(*   filter: the Okta filter expression  lastUpdated gt "<time n, zone s>" *)
(***************************************************************************)
PlainText(s) == [form |-> "plain", s |-> s, n |-> 0]
IntText(n) == [form |-> "int", s |-> "", n |-> n]
TimeText(t, zone) == [form |-> "time", s |-> zone, n |-> t]
FilterText(t, zone) == [form |-> "filter", s |-> zone, n |-> t]
EmptyText == PlainText("")

\* strconv.Itoa
Itoa(n) == IntText(n)
\* strconv.Atoi: [ok, n]
Atoi(txt) == IF txt.form = "int" THEN [ok |-> TRUE, n |-> txt.n] ELSE [ok |-> FALSE, n |-> 0]

\* time.Parse(time.RFC3339, text): [ok, t]; every zone suffix denotes the same instant
ParseRFC3339(txt) == IF txt.form = "time" /\ txt.n > 0 THEN [ok |-> TRUE, t |-> txt.n] ELSE [ok |-> FALSE, t |-> 0]
\* datautils.Time.FormatRFC3339inUTC
FormatRFC3339inUTC(t) == TimeText(t, "Z")

(***************************************************************************)
(* JSON nodes (ajson.Node).                                                *)
(***************************************************************************)
JNull == [kind |-> "null"]
JBool(b) == [kind |-> "bool", b |-> b]
JStr(txt) == [kind |-> "string", text |-> txt]
JArr(q) == [kind |-> "array", elems |-> q]
JObj(f) == [kind |-> "object", members |-> f]
NoMembers == [k \in {} |-> JNull]

IsObject(node) == node.kind = "object"
IsArray(node) == node.kind = "array"
HasKey(node, key) == IsObject(node) /\ key \in DOMAIN node.members

ErrNotArray == "ErrNotArray"
ErrNotObject == "ErrNotObject"
ErrNotBool == "ErrNotBool"
ErrKeyNotFound == "ErrKeyNotFound"
ShapeErrors == {ErrNotArray, ErrNotObject, ErrKeyNotFound}

(***************************************************************************)
(* jsonquery accessors.  An Optional accessor returns (nil, nil) for a     *)
(* missing or null member, as the nil checks of its callers show           *)
(* (supersend/handlers.go:192, 218, 246, 251), and an error for a member   *)
(* of another type.  Result: [err, nil, node].                             *)
(***************************************************************************)
QNil == [err |-> "", nil |-> TRUE, node |-> JNull]
QErr(e) == [err |-> e, nil |-> TRUE, node |-> JNull]
QNode(n) == [err |-> "", nil |-> FALSE, node |-> n]

getInnerKeyOptional(node, key) ==
  IF ~HasKey(node, key) THEN QNil
  ELSE IF node.members[key].kind = "null" THEN QNil
  ELSE QNode(node.members[key])

ObjectOptional(node, key) ==
  LET r == getInnerKeyOptional(node, key) IN
  IF r.nil THEN r
  ELSE IF IsObject(r.node) THEN r ELSE QErr(ErrNotObject)

BoolOptional(node, key) ==
  LET r == getInnerKeyOptional(node, key) IN
  IF r.nil THEN r
  ELSE IF r.node.kind = "bool" THEN r ELSE QErr(ErrNotBool)

\* record lists: [err, records]
RecsErr(e) == [err |-> e, records |-> <<>>]
RecsOk(q) == [err |-> "", records |-> q]

ArrayOptional(node, key) ==
  LET r == getInnerKeyOptional(node, key) IN
  IF r.err # "" THEN RecsErr(r.err)
  ELSE IF r.nil THEN RecsOk(<<>>)
  ELSE IF IsArray(r.node) THEN RecsOk(r.node.elems) ELSE RecsErr(ErrNotArray)

\* ArrayRequired: the empty key is the node itself
ArrayRequired(node, key) ==
  IF key = "" THEN (IF IsArray(node) THEN RecsOk(node.elems) ELSE RecsErr(ErrNotArray))
  ELSE IF ~HasKey(node, key) THEN RecsErr(ErrKeyNotFound)
  ELSE IF IsArray(node.members[key]) THEN RecsOk(node.members[key].elems)
  ELSE RecsErr(ErrNotArray)

\* common.MakeRecordsFunc(responseKey)(node)
MakeRecordsFunc(responseKey, node) == ArrayRequired(node, responseKey)

(***************************************************************************)
(* Record Extractor, Okta.                                                 *)
(***************************************************************************)
OktaObjects == {"users", "groups", "apps", "logs", "devices", "idps",
                "authorizationServers", "trustedOrigins", "zones", "brands",
                "domains", "authenticators", "policies", "eventHooks", "features"}

\* mutant: the test on the object name inverted
responseField_Inverted(objectName) == IF objectName # "domains" THEN "domains" ELSE ""

responseField(objectName) == IF objectName = "domains" THEN "domains" ELSE ""

(***************************************************************************)
(* Record Extractor, SuperSend.                                            *)
(***************************************************************************)
\* strings.Split(responseKey, "."), for the response keys of the schema
SplitDots(responseKey) ==
  CASE responseKey = "data.conversations" -> <<"data", "conversations">>
    [] responseKey = "data.items" -> <<"data", "items">>
    [] responseKey = "data.page.items" -> <<"data", "page", "items">>
    [] OTHER -> <<responseKey>>
\* strings.Contains(responseKey, ".")
ContainsDot(responseKey) == Len(SplitDots(responseKey)) > 1

\* mutant: the document itself is the record, its "data" wrapper is not looked into
getSingleObjectAsArray_NoUnwrap(node) ==
  IF IsObject(node) THEN RecsOk(<<node>>) ELSE RecsErr(ErrNotArray)

getSingleObjectAsArray(node) ==
  IF ~IsObject(node) THEN RecsErr(ErrNotArray)
  ELSE LET d == ObjectOptional(node, "data") IN
       IF d.err = "" /\ ~d.nil THEN RecsOk(<<d.node>>)
       ELSE RecsOk(<<node>>)

RECURSIVE walkNested(_, _, _)
walkNested(currentNode, parts, i) ==
  IF i > Len(parts) THEN RecsErr(ErrNotArray)
  ELSE IF i = Len(parts) THEN ArrayOptional(currentNode, parts[i])
  ELSE LET c == ObjectOptional(currentNode, parts[i]) IN
       IF c.err # "" THEN RecsErr(c.err)
       ELSE IF c.nil THEN RecsErr(ErrKeyNotFound)
       ELSE walkNested(c.node, parts, i + 1)

\* mutant: the last component is looked up in the document itself
getNestedRecords_LastOnly(node, responseKey) ==
  ArrayOptional(node, SplitDots(responseKey)[Len(SplitDots(responseKey))])

getNestedRecords(node, responseKey) == walkNested(node, SplitDots(responseKey), 1)

\* mutant: the flat key is required
getRecords_Required(responseKey, node) ==
  IF responseKey = "" THEN getSingleObjectAsArray(node)
  ELSE IF ContainsDot(responseKey) THEN getNestedRecords(node, responseKey)
  ELSE ArrayRequired(node, responseKey)

getRecords(responseKey, node) ==
  IF responseKey = "" THEN getSingleObjectAsArray(node)
  ELSE IF ContainsDot(responseKey) THEN getNestedRecords(node, responseKey)
  ELSE ArrayOptional(node, responseKey)

(***************************************************************************)
(* URLs (net/url, urlbuilder.URL): base, path segments and query.  The     *)
(* query maps a parameter to the list of its values (url.Values).  The     *)
(* empty string, as a URL, is NoPage.                                      *)
(***************************************************************************)
NoQuery == [k \in {} |-> <<>>]
NoPage == [base |-> "", path |-> <<>>, query |-> NoQuery]
\* urlbuilder.New(base, path)
NewURL(base, path) == [base |-> base, path |-> path, query |-> NoQuery]
\* (*urlbuilder.URL).WithQueryParam: sets the parameter to the one value
WithQueryParam(url, key, txt) == [url EXCEPT !.query = (key :> <<txt>>) @@ url.query]
\* url.Values.Get: the first value, or ""
QueryGet(query, key) == IF key \in DOMAIN query /\ Len(query[key]) > 0 THEN query[key][1] ELSE EmptyText
\* url.Values.Set
QuerySet(query, key, txt) == (key :> <<txt>>) @@ query

OktaBaseURL == "https://example.okta.com"
SuperSendBaseURL == "https://api.supersend.io"

SuperSendObjects == {"senders", "org", "conversation/latest-by-profile"}

ErrObjectNotFound == "ErrObjectNotFound"
\* metadata.Schemas.LookupURLPath: [err, path]
LookupURLPath(provider, objectName) ==
  IF provider = "okta" /\ objectName \in OktaObjects
    THEN [err |-> "", path |-> <<"api", "v1", objectName>>]
  ELSE IF provider = "supersend" /\ objectName \in SuperSendObjects
    THEN [err |-> "", path |-> <<"v1", objectName>>]
  ELSE [err |-> ErrObjectNotFound, path |-> <<>>]

\* metadata.Schemas.LookupArrayFieldName (SuperSend schema)
LookupArrayFieldName(objectName) ==
  CASE objectName = "org" -> ""
    [] objectName = "conversation/latest-by-profile" -> "data.conversations"
    [] OTHER -> "data"

(***************************************************************************)
(* common.ReadParams and common.ReadResult.                                *)
(***************************************************************************)
ReadParams(objectName, fields, since, until, pageSize, nextPage) ==
  [ObjectName |-> objectName, Fields |-> fields, Since |-> since, Until |-> until,
   PageSize |-> pageSize, NextPage |-> nextPage]
NoParams == ReadParams("", {}, 0, 0, 0, NoPage)
NoResult == [Rows |-> 0, Data |-> <<>>, NextPage |-> NoPage, Done |-> FALSE]
ReqErr(e) == [err |-> e, url |-> NoPage]
ReqOk(u) == [err |-> "", url |-> u]

(***************************************************************************)
(* Okta: request construction (providers/okta/handlers.go).                *)
(***************************************************************************)
limitKey == "limit"
pageLimit == 200
filterKey == "filter"
sinceKey == "since"

objectsWithProviderSideFilter == {"users", "groups", "apps"}
objectsWithConnectorSideFilter == {"devices", "idps", "authorizationServers", "trustedOrigins",
                                   "zones", "authenticators", "policies", "eventHooks"}

\* mutant: a positive hint is used as it is
okta_pageSize_NoCap(params) == IF params.PageSize > 0 THEN params.PageSize ELSE pageLimit

okta_pageSize(params) ==
  IF params.PageSize > 0
    THEN (IF params.PageSize > pageLimit THEN pageLimit ELSE params.PageSize)
    ELSE pageLimit

\* mutant: the filter expression is sent for every object but logs
okta_withSince_AllObjects(url, params) ==
  IF params.Since # 0
    THEN IF params.ObjectName = "logs"
           THEN WithQueryParam(url, sinceKey, FormatRFC3339inUTC(params.Since))
         ELSE WithQueryParam(url, filterKey, FilterText(FormatRFC3339inUTC(params.Since).n,
                                                        FormatRFC3339inUTC(params.Since).s))
    ELSE url

okta_withSince(url, params) ==
  IF params.Since # 0
    THEN IF params.ObjectName = "logs"
           THEN WithQueryParam(url, sinceKey, FormatRFC3339inUTC(params.Since))
         ELSE IF params.ObjectName \in objectsWithProviderSideFilter
           THEN WithQueryParam(url, filterKey, FilterText(FormatRFC3339inUTC(params.Since).n,
                                                          FormatRFC3339inUTC(params.Since).s))
         ELSE url
    ELSE url

\* mutant: the page size and the time filter are applied to a token too
okta_buildReadRequest_OnToken(params) ==
  IF params.NextPage # NoPage
    THEN ReqOk(okta_withSince(WithQueryParam(params.NextPage, limitKey, Itoa(okta_pageSize(params))), params))
  ELSE LET p == LookupURLPath("okta", params.ObjectName) IN
       IF p.err # "" THEN ReqErr(p.err)
       ELSE ReqOk(okta_withSince(
              WithQueryParam(NewURL(OktaBaseURL, p.path), limitKey, Itoa(okta_pageSize(params))),
              params))

okta_buildReadRequest(params) ==
  IF params.NextPage # NoPage THEN ReqOk(params.NextPage)
  ELSE LET p == LookupURLPath("okta", params.ObjectName) IN
       IF p.err # "" THEN ReqErr(p.err)
       ELSE ReqOk(okta_withSince(
              WithQueryParam(NewURL(OktaBaseURL, p.path), limitKey, Itoa(okta_pageSize(params))),
              params))

(***************************************************************************)
(* SuperSend: request construction (providers/supersend/handlers.go).      *)
(***************************************************************************)
defaultPageSize == IntText(100)
limitParam == "limit"
offsetParam == "offset"
updatedAtField == "updatedAt"

\* readhelper.PageSizeWithDefaultStr: the hint when positive, else the default; it is given
\* no maximum ("SuperSend API enforces max of 100 on its side", supersend/handlers.go:105)
PageSizeWithDefaultStr(params, default) ==
  IF params.PageSize > 0 THEN Itoa(params.PageSize) ELSE default

supersend_buildURL(objectName) ==
  LET p == LookupURLPath("supersend", objectName) IN
  IF p.err # "" THEN ReqErr(p.err) ELSE ReqOk(NewURL(SuperSendBaseURL, p.path))

\* mutant: the page size of the call is put on a token too
supersend_buildReadRequest_HintOnToken(params) ==
  IF params.NextPage # NoPage
    THEN ReqOk(WithQueryParam(params.NextPage, limitParam, PageSizeWithDefaultStr(params, defaultPageSize)))
  ELSE LET u == supersend_buildURL(params.ObjectName) IN
       IF u.err # "" THEN u
       ELSE ReqOk(WithQueryParam(u.url, limitParam, PageSizeWithDefaultStr(params, defaultPageSize)))

supersend_buildReadRequest(params) ==
  IF params.NextPage # NoPage THEN ReqOk(params.NextPage)
  ELSE LET u == supersend_buildURL(params.ObjectName) IN
       IF u.err # "" THEN u
       ELSE ReqOk(WithQueryParam(u.url, limitParam, PageSizeWithDefaultStr(params, defaultPageSize)))

(***************************************************************************)
(* Pagination Cursor Builders.  A response is [link, body]: link is the    *)
(* URL of the Link header's rel="next" relation (NoPage when there is      *)
(* none), body the parsed JSON document.                                   *)
(***************************************************************************)
\* httpkit.HeaderLink(response, "next")
HeaderLink(response) == response.link

\* mutant: the Link header is not looked at
okta_makeNextRecordsURL_NoLink(response) == ReqOk(NoPage)

\* okta makeNextRecordsURL(headers)(node)
okta_makeNextRecordsURL(response) == ReqOk(HeaderLink(response))

\* mutant: the has-more flag is taken to be set
hasMoreRecords_True(node) == TRUE

\* mutant: a has_more member that cannot be read as a boolean counts as set
hasMoreRecords_OnError(node) ==
  LET paginationNode == ObjectOptional(node, "pagination") IN
  IF paginationNode.err # "" \/ paginationNode.nil THEN FALSE
  ELSE LET hasMore == BoolOptional(paginationNode.node, "has_more") IN
       IF hasMore.err # "" THEN TRUE
       ELSE IF hasMore.nil THEN FALSE
       ELSE hasMore.node.b

hasMoreRecords(node) ==
  LET paginationNode == ObjectOptional(node, "pagination") IN
  IF paginationNode.err # "" \/ paginationNode.nil THEN FALSE
  ELSE LET hasMore == BoolOptional(paginationNode.node, "has_more") IN
       IF hasMore.err # "" \/ hasMore.nil THEN FALSE
       ELSE hasMore.node.b

\* mutant: the next offset is the current offset plus one
calculateNextOffset_PlusOne(requestURL) ==
  LET offsetStr == QueryGet(requestURL.query, offsetParam)
  IN (IF offsetStr # EmptyText /\ Atoi(offsetStr).ok THEN Atoi(offsetStr).n ELSE 0) + 1

calculateNextOffset(requestURL) ==
  LET offsetStr == QueryGet(requestURL.query, offsetParam)
      limitStr == QueryGet(requestURL.query, limitParam)
      currentOffset == IF offsetStr # EmptyText /\ Atoi(offsetStr).ok THEN Atoi(offsetStr).n ELSE 0
      limit == IF limitStr # EmptyText /\ Atoi(limitStr).ok THEN Atoi(limitStr).n ELSE 100
  IN currentOffset + limit

\* the orders in which "for key, values := range query" may visit the keys of the map
RangeOrders(query) ==
  LET keys == {k \in DOMAIN query : Len(query[k]) > 0} IN
  {order \in [1..Cardinality(keys) -> keys] : \A i, j \in DOMAIN order : i # j => order[i] # order[j]}

\* mutant: the loop ends after the first key it visits
applyQueryParams_FirstOnly(url, query, order) ==
  IF order = <<>> THEN url
  ELSE WithQueryParam(url, order[1], query[order[1]][Len(query[order[1]])])

\* the loop "Apply all query params" (supersend/handlers.go:298-303), visiting the keys in
\* the given order: of the values of a key the last one stays
RECURSIVE applyQueryParams(_, _, _)
applyQueryParams(url, query, order) ==
  IF order = <<>> THEN url
  ELSE applyQueryParams(WithQueryParam(url, order[1], query[order[1]][Len(query[order[1]])]),
                        query, Tail(order))

\* the query of the next page: offset overwritten, limit set when the request has none
nextPageQuery(requestURL, nextOffset) ==
  LET q1 == QuerySet(requestURL.query, offsetParam, Itoa(nextOffset))
  IN IF QueryGet(q1, limitParam) = EmptyText THEN QuerySet(q1, limitParam, defaultPageSize) ELSE q1

\* the keys are visited in one of the orders of the map
buildNextPageURL(baseURL, requestURL, nextOffset) ==
  LET query == nextPageQuery(requestURL, nextOffset)
  IN ReqOk(applyQueryParams(NewURL(baseURL, requestURL.path), query,
                            CHOOSE order \in RangeOrders(query) : TRUE))

\* (*urlbuilder.URL).String: base, path and the parameters in the order of their names,
\* as the token of TestRead shows (limit before offset, supersend/read_test.go:128)
ParamNames == <<"after", "filter", "limit", "offset", "since", "status">>
URLString(url) ==
  [base |-> url.base, path |-> url.path,
   query |-> LET present == SelectSeq(ParamNames, LAMBDA k : k \in DOMAIN url.query)
             IN [i \in 1..Len(present) |-> <<present[i], url.query[present[i]]>>]]

\* mutant: the has-more flag is not looked at
supersend_makeNextRecordsURL_Always(baseURL, requestURL, node) ==
  buildNextPageURL(baseURL, requestURL, calculateNextOffset(requestURL))

\* supersend makeNextRecordsURL(baseURL, requestURL)(node)
supersend_makeNextRecordsURL(baseURL, requestURL, node) ==
  IF ~hasMoreRecords(node) THEN ReqOk(NoPage)
  ELSE buildNextPageURL(baseURL, requestURL, calculateNextOffset(requestURL))

(***************************************************************************)
(* Incremental Filter (readhelper).  A filter is described by              *)
(* [kind, order, field, format]; applying it to the records of a page      *)
(* gives [err, records, stop].                                             *)
(***************************************************************************)
ErrTimestampParse == "ErrTimestampParse"
ChronologicalOrder == "ChronologicalOrder"
Unordered == "Unordered"
RFC3339 == "RFC3339"

\* readhelper.MakeIdentityFilterFunc
MakeIdentityFilterFunc == [kind |-> "identity", order |-> Unordered, field |-> "", format |-> ""]
\* readhelper.MakeTimeFilterFunc(order, NewTimeBoundary(), field, format, nextPageFunc)
MakeTimeFilterFunc(order, field, format) == [kind |-> "time", order |-> order, field |-> field, format |-> format]

\* time.Parse(format, text)
ParseTime(format, txt) == IF format = RFC3339 THEN ParseRFC3339(txt) ELSE [ok |-> FALSE, t |-> 0]

\* the timestamp of a record: [st, t] with st one of missing, bad, ok
RecordTimestamp(record, field, format) ==
  IF ~HasKey(record, field) THEN [st |-> "missing", t |-> 0]
  ELSE IF record.members[field].kind # "string" THEN [st |-> "bad", t |-> 0]
  ELSE LET p == ParseTime(format, record.members[field].text) IN
       IF p.ok THEN [st |-> "ok", t |-> p.t] ELSE [st |-> "bad", t |-> 0]

\* the TimeBoundary of NewTimeBoundary(): since inclusive, until exclusive
InWindow(t, since, until) == (since = 0 \/ since <= t) /\ (until = 0 \/ t < until)

ApplyFilter(filter, params, records) ==
  IF filter.kind = "identity" THEN [err |-> "", records |-> records, stop |-> FALSE]
  ELSE LET ts(i) == RecordTimestamp(records[i], filter.field, filter.format)
           Pass(r) == LET x == RecordTimestamp(r, filter.field, filter.format) IN
                      x.st = "ok" /\ InWindow(x.t, params.Since, params.Until)
       IN IF \E i \in 1..Len(records) : ts(i).st = "bad"
            THEN [err |-> ErrTimestampParse, records |-> <<>>, stop |-> FALSE]
          ELSE [err |-> "", records |-> SelectSeq(records, Pass),
                stop |-> /\ filter.order = ChronologicalOrder
                         /\ params.Until # 0
                         /\ \E i \in 1..Len(records) : ts(i).st = "ok" /\ ts(i).t >= params.Until]

\* mutant: the connector-side objects are filtered as Unordered
okta_makeFilterFunc_Unordered(params) ==
  IF params.ObjectName \in objectsWithProviderSideFilter \/ params.ObjectName = "logs"
    THEN MakeIdentityFilterFunc
  ELSE IF params.ObjectName \notin objectsWithConnectorSideFilter
    THEN MakeIdentityFilterFunc
  ELSE MakeTimeFilterFunc(Unordered, "lastUpdated", RFC3339)

\* mutant: the connector-side objects are not filtered
okta_makeFilterFunc_NoConnectorSide(params) == MakeIdentityFilterFunc

\* mutant: every object without provider-side filtering is filtered on lastUpdated
okta_makeFilterFunc_NoNonePolicy(params) ==
  IF params.ObjectName \in objectsWithProviderSideFilter \/ params.ObjectName = "logs"
    THEN MakeIdentityFilterFunc
  ELSE MakeTimeFilterFunc(ChronologicalOrder, "lastUpdated", RFC3339)

\* mutant: the connector-side filter reads the field "created"
okta_makeFilterFunc_CreatedField(params) ==
  IF params.ObjectName \in objectsWithProviderSideFilter \/ params.ObjectName = "logs"
    THEN MakeIdentityFilterFunc
  ELSE IF params.ObjectName \notin objectsWithConnectorSideFilter
    THEN MakeIdentityFilterFunc
  ELSE MakeTimeFilterFunc(ChronologicalOrder, "created", RFC3339)

\* okta makeFilterFunc(params, headers)
okta_makeFilterFunc(params) ==
  IF params.ObjectName \in objectsWithProviderSideFilter \/ params.ObjectName = "logs"
    THEN MakeIdentityFilterFunc
  ELSE IF params.ObjectName \notin objectsWithConnectorSideFilter
    THEN MakeIdentityFilterFunc
  ELSE MakeTimeFilterFunc(ChronologicalOrder, "lastUpdated", RFC3339)

\* mutant: the records are taken to be in chronological order
supersend_makeFilterFunc_Chronological(params) ==
  IF params.Since = 0 /\ params.Until = 0 THEN MakeIdentityFilterFunc
  ELSE MakeTimeFilterFunc(ChronologicalOrder, updatedAtField, RFC3339)

\* mutant: the filter is skipped unless both Since and Until are given
supersend_makeFilterFunc_BothBounds(params) ==
  IF params.Since = 0 \/ params.Until = 0 THEN MakeIdentityFilterFunc
  ELSE MakeTimeFilterFunc(Unordered, updatedAtField, RFC3339)

\* supersend makeFilterFunc(params, nextPageFunc)
supersend_makeFilterFunc(params) ==
  IF params.Since = 0 /\ params.Until = 0 THEN MakeIdentityFilterFunc
  ELSE MakeTimeFilterFunc(Unordered, updatedAtField, RFC3339)

(***************************************************************************)
(* common.ParseResultFiltered: extraction, filter, field projection and    *)
(* the done flag.  Result: [err, result].                                  *)
(***************************************************************************)
\* common.MakeMarshaledDataFunc(nil): one row per record, the requested fields that the record has
ProjectFields(record, fields) ==
  [f \in {k \in fields : HasKey(record, k)} |-> record.members[f]]
MarshaledData(records, fields) ==
  [i \in 1..Len(records) |-> [Fields |-> ProjectFields(records[i], fields), Raw |-> records[i]]]

ParseErr(e) == [err |-> e, result |-> NoResult]

ParseResultFiltered(params, recs, filter, next) ==
  IF recs.err # "" THEN ParseErr(recs.err)
  ELSE LET f == ApplyFilter(filter, params, recs.records) IN
       IF f.err # "" THEN ParseErr(f.err)
       ELSE IF next.err # "" THEN ParseErr(next.err)
       ELSE LET done == f.stop \/ next.url = NoPage IN
            [err |-> "",
             result |-> [Rows |-> Len(f.records),
                         Data |-> MarshaledData(f.records, params.Fields),
                         NextPage |-> IF done THEN NoPage ELSE next.url,
                         Done |-> done]]

\* mutant: the token is the Link header's, whatever the filter decided
okta_parseReadResponse_LinkToken(params, request, response) ==
  LET r == ParseResultFiltered(params,
                               MakeRecordsFunc(responseField(params.ObjectName), response.body),
                               okta_makeFilterFunc(params),
                               okta_makeNextRecordsURL(response))
  IN [r EXCEPT !.result.NextPage = IF r.err = "" THEN HeaderLink(response) ELSE NoPage]

\* okta (c *Connector) parseReadResponse
okta_parseReadResponse(params, request, response) ==
  ParseResultFiltered(params,
                      MakeRecordsFunc(responseField(params.ObjectName), response.body),
                      okta_makeFilterFunc(params),
                      okta_makeNextRecordsURL(response))

\* mutant: a page that fails is returned as an empty last page
supersend_parseReadResponse_Swallow(params, request, response) ==
  LET r == ParseResultFiltered(params,
                               getRecords(LookupArrayFieldName(params.ObjectName), response.body),
                               supersend_makeFilterFunc(params),
                               supersend_makeNextRecordsURL(SuperSendBaseURL, request, response.body))
  IN IF r.err = "" THEN r ELSE [err |-> "", result |-> [NoResult EXCEPT !.Done = TRUE]]

\* mutant: a page without rows ends the read
supersend_parseReadResponse_StopOnEmpty(params, request, response) ==
  LET r == ParseResultFiltered(params,
                               getRecords(LookupArrayFieldName(params.ObjectName), response.body),
                               supersend_makeFilterFunc(params),
                               supersend_makeNextRecordsURL(SuperSendBaseURL, request, response.body))
  IN IF r.err = "" /\ r.result.Rows = 0
       THEN [r EXCEPT !.result.Done = TRUE, !.result.NextPage = NoPage]
       ELSE r

\* supersend (c *Connector) parseReadResponse
supersend_parseReadResponse(params, request, response) ==
  ParseResultFiltered(params,
                      getRecords(LookupArrayFieldName(params.ObjectName), response.body),
                      supersend_makeFilterFunc(params),
                      supersend_makeNextRecordsURL(SuperSendBaseURL, request, response.body))

(***************************************************************************)
(* The read of one object, page by page (reader.NewHTTPReader with the     *)
(* handlers above; the caller loop is testscenario.ReadThroughPages).      *)
(***************************************************************************)
VARIABLES
  conn,      \* the provider of the connector: "okta" or "supersend"
  params,    \* common.ReadParams of the current call
  pc,        \* idle, validated, requested, responded, returned, failed
  request,   \* URL of the request built for this page
  response,  \* [link, body] the transport returned
  result,    \* common.ReadResult of the last page
  err,       \* the error the call returned, "" when none
  pages,     \* pages returned so far in this read
  ex         \* a Record Extractor applied to a document, once and again:
             \* [stage, provider, object, path, before, doc, out, again]

vars == <<conn, params, pc, request, response, result, err, pages, ex>>

NoResponse == [link |-> NoPage, body |-> JNull]
NoExtract == [stage |-> "none", provider |-> "", object |-> "", path |-> "", before |-> JNull, doc |-> JNull,
              out |-> RecsOk(<<>>), again |-> RecsOk(<<>>)]

ErrMissingObjects == "ErrMissingObjects"
ErrMissingFields == "ErrMissingFields"
ErrCaller == "ErrCaller"

\* mutant: the fields are looked at before the object name
ValidateParams_FieldsFirst(p) ==
  IF p.Fields = {} THEN ErrMissingFields
  ELSE IF p.ObjectName = "" THEN ErrMissingObjects
  ELSE ""

\* common.ReadParams.ValidateParams(withRequiredFields = true); the order of the two tests
\* is the one TestRead shows: ReadParams{} gives ErrMissingObjects
ValidateParams(p) ==
  IF p.ObjectName = "" THEN ErrMissingObjects
  ELSE IF p.Fields = {} THEN ErrMissingFields
  ELSE ""

buildReadRequest(provider, p) ==
  IF provider = "okta" THEN okta_buildReadRequest(p) ELSE supersend_buildReadRequest(p)

parseReadResponse(provider, p, req, resp) ==
  IF provider = "okta" THEN okta_parseReadResponse(p, req, resp)
  ELSE supersend_parseReadResponse(p, req, resp)

(***************************************************************************)
(* Inputs: what callers ask for and what the upstream answers.             *)
(***************************************************************************)
Providers == {"okta", "supersend"}
\* objects whose list endpoint returns pages of records
ListObjects(provider) ==
  IF provider = "okta" THEN OktaObjects ELSE {"senders", "conversation/latest-by-profile"}
SinceValues == {0, 2}
UntilValues == {0, MaxT - 1}
RequestedFields == {"id", "email"}

\* a timestamp member of a record: -1 no member, 0 a text that is no RFC3339 time, t the time t
TsCodes == (-1)..MaxT
TimestampKey(provider) == IF provider = "okta" THEN "lastUpdated" ELSE "updatedAt"
MkRecord(provider, i, c) ==
  JObj(IF c = -1 THEN ("id" :> JStr(IntText(i)))
       ELSE ("id" :> JStr(IntText(i))) @@
            (TimestampKey(provider) :> JStr(IF c = 0 THEN PlainText("yesterday") ELSE TimeText(c, "Z"))))
\* the pages of at most n records
CodeSeqs(n) == UNION {[1..k -> TsCodes] : k \in 0..n}
MkRecords(provider, codes) == [i \in 1..Len(codes) |-> MkRecord(provider, i, codes[i])]

HasMore(more) == JObj("has_more" :> JBool(more))
BodyFor(provider, objectName, records, more) ==
  IF provider = "okta"
    THEN IF objectName = "domains" THEN JObj("domains" :> JArr(records)) ELSE JArr(records)
  ELSE IF objectName = "conversation/latest-by-profile"
    THEN JObj("data" :> JObj("conversations" :> JArr(records)) @@ "pagination" :> HasMore(more))
  ELSE JObj("data" :> JArr(records) @@ "pagination" :> HasMore(more))

\* the Link rel="next" URL Okta answers page k with
OktaNextLink(objectName, k) ==
  WithQueryParam(WithQueryParam(NewURL(OktaBaseURL, <<"api", "v1", objectName>>),
                                limitKey, IntText(pageLimit)), "after", IntText(k))

ResponseFor(provider, objectName, records, more, k) ==
  [link |-> IF provider = "okta" /\ more THEN OktaNextLink(objectName, k) ELSE NoPage,
   body |-> BodyFor(provider, objectName, records, more)]

\* a body that is no envelope at all
MalformedBody == JStr(PlainText("oops"))

\* records per page in the page loop
LoopRecs == 1

Responses(provider, objectName, n, k) ==
  {ResponseFor(provider, objectName, MkRecords(provider, codes), more, k) :
     codes \in CodeSeqs(n), more \in BOOLEAN}
  \cup {[link |-> NoPage, body |-> MalformedBody]}

ReadInputs ==
  {[provider |-> pr, p |-> ReadParams(o, RequestedFields, s, u, 0, NoPage)] :
     pr \in Providers, o \in OktaObjects \cup SuperSendObjects, s \in SinceValues, u \in UntilValues}
FirstCalls ==
  {x \in ReadInputs : x.p.ObjectName \in ListObjects(x.provider)}
  \cup {[provider |-> pr, p |-> ReadParams("", {}, 0, 0, 0, NoPage)] : pr \in Providers}
  \cup {[provider |-> pr, p |-> ReadParams("", RequestedFields, 0, 0, 0, NoPage)] : pr \in Providers}
  \cup {[provider |-> pr, p |-> ReadParams("users", {}, 0, 0, 0, NoPage)] : pr \in Providers}
  \cup {[provider |-> pr, p |-> ReadParams("nosuch", RequestedFields, 0, 0, 0, NoPage)] : pr \in Providers}

(***************************************************************************)
(* Actions.                                                                *)
(***************************************************************************)
Init ==
  /\ conn = "okta"
  /\ params = NoParams
  /\ pc = "idle"
  /\ request = NoPage
  /\ response = NoResponse
  /\ result = NoResult
  /\ err = ""
  /\ pages = 0
  /\ ex = NoExtract

\* conn.Read(ctx, params): validation of the parameters
Read ==
  /\ pc = "idle"
  /\ \E x \in FirstCalls :
       /\ conn' = x.provider
       /\ params' = x.p
       /\ err' = ValidateParams(x.p)
       /\ pc' = IF ValidateParams(x.p) = "" THEN "validated" ELSE "failed"
  /\ UNCHANGED <<request, response, result, pages, ex>>

\* BuildRequest handler
BuildReadRequest ==
  /\ pc = "validated"
  /\ LET r == buildReadRequest(conn, params) IN
       /\ request' = r.url
       /\ err' = r.err
       /\ pc' = IF r.err = "" THEN "requested" ELSE "failed"
  /\ UNCHANGED <<conn, params, response, result, pages, ex>>

\* the transport returns a 2xx response
Execute ==
  /\ pc = "requested"
  /\ response' \in Responses(conn, params.ObjectName, LoopRecs, pages + 1)
  /\ pc' = "responded"
  /\ UNCHANGED <<conn, params, request, result, err, pages, ex>>

\* the transport fails, or the ErrorHandler turns a 4xx status into an error
ExecuteFails ==
  /\ pc = "requested"
  /\ err' = ErrCaller
  /\ pc' = "failed"
  /\ UNCHANGED <<conn, params, request, response, result, pages, ex>>

\* ParseResponse handler
ParseReadResponse ==
  /\ pc = "responded"
  /\ LET r == parseReadResponse(conn, params, request, response) IN
       /\ err' = r.err
       /\ result' = IF r.err = "" THEN r.result ELSE result
       /\ pages' = IF r.err = "" THEN pages + 1 ELSE pages
       /\ pc' = IF r.err = "" THEN "returned" ELSE "failed"
  /\ UNCHANGED <<conn, params, request, response, ex>>

\* the caller asks for the next page with the token of the last one
NextPageCall ==
  /\ pc = "returned"
  /\ ~result.Done
  /\ pages < MaxPages
  /\ params' = [params EXCEPT !.NextPage = result.NextPage]
  /\ err' = ValidateParams(params)
  /\ pc' = "validated"
  /\ UNCHANGED <<conn, request, response, result, pages, ex>>

Next == Read \/ BuildReadRequest \/ Execute \/ ExecuteFails \/ ParseReadResponse \/ NextPageCall

Spec == Init /\ [][Next]_vars

(***************************************************************************)
(* The ParseResponse handler on every page of at most MaxRecs records:     *)
(* the state is the one a first call is in when its response arrived.      *)
(***************************************************************************)
InitFilter ==
  /\ \E x \in {y \in ReadInputs : y.p.ObjectName \in ListObjects(y.provider)} :
       /\ conn = x.provider
       /\ params = x.p
       /\ request = buildReadRequest(x.provider, x.p).url
       /\ response \in Responses(x.provider, x.p.ObjectName, MaxRecs, 1)
  /\ pc = "responded"
  /\ result = NoResult
  /\ err = ""
  /\ pages = 0
  /\ ex = NoExtract

NextFilter == ParseReadResponse

SpecFilter == InitFilter /\ [][NextFilter]_vars

(***************************************************************************)
(* Calls with every page-size hint, and calls that resume a read with a    *)
(* next-page token: the state is the one of a call whose parameters passed *)
(* validation.                                                             *)
(***************************************************************************)
\* page-size hints: negative, none, within both maxima, between them, above both
PageSizeHints == {-1, 0, 50, 100, 150, 200, 250}

\* a value of a query parameter of a token: "" stands for the parameter being absent
LimitTexts == {EmptyText, IntText(0), IntText(50), IntText(100), PlainText("abc")}
OffsetTexts == {EmptyText, IntText(0), IntText(100), IntText(200), PlainText("x")}
StatusTexts == {EmptyText, PlainText("active")}
WithOptionalParam(url, key, txt) == IF txt = EmptyText THEN url ELSE WithQueryParam(url, key, txt)

\* the tokens a caller resumes a read with
ResumeTokens(provider, objectName) ==
  IF provider = "okta" THEN {OktaNextLink(objectName, k) : k \in 1..MaxPages}
  ELSE {WithOptionalParam(WithOptionalParam(WithOptionalParam(
            NewURL(SuperSendBaseURL, <<"v1", objectName>>), limitParam, l), offsetParam, o), "status", st) :
          l \in LimitTexts, o \in OffsetTexts, st \in StatusTexts}

\* one object of every filter policy and envelope of Okta, and the SuperSend list objects
CallObjects(provider) ==
  IF provider = "okta" THEN {"users", "logs", "devices", "domains", "brands"} ELSE ListObjects(provider)

\* first-page calls with every hint, and resumed calls without and with a hint and a since
Calls ==
  UNION {{[provider |-> pr, p |-> ReadParams(o, RequestedFields, s, 0, ps, NoPage)] :
            o \in CallObjects(pr), s \in SinceValues, ps \in PageSizeHints} : pr \in Providers}
  \cup UNION {UNION {{[provider |-> pr, p |-> ReadParams(o, RequestedFields, h[1], 0, h[2], tok)] :
                        tok \in ResumeTokens(pr, o), h \in {<<0, 0>>, <<2, 50>>}} :
                      o \in CallObjects(pr)} : pr \in Providers}

InitCalls ==
  /\ \E x \in Calls :
       /\ conn = x.provider
       /\ params = x.p
  /\ pc = "validated"
  /\ request = NoPage
  /\ response = NoResponse
  /\ result = NoResult
  /\ err = ""
  /\ pages = 0
  /\ ex = NoExtract

NextCalls == BuildReadRequest \/ Execute \/ ExecuteFails \/ ParseReadResponse

SpecCalls == InitCalls /\ [][NextCalls]_vars

(***************************************************************************)
(* SuperSend: write and delete (providers/supersend/handlers.go).  For     *)
(* these operations params is the WriteParams or DeleteParams of the call, *)
(* tagged with the operation, request is the http.Request built for it     *)
(* ([method, url]) and result the WriteResult or DeleteResult.             *)
(***************************************************************************)
ErrOperationNotSupportedForObject == "ErrOperationNotSupportedForObject"
ErrMissingRecordData == "ErrMissingRecordData"
ErrMissingRecordID == "ErrMissingRecordID"
ErrRequestFailed == "ErrRequestFailed"
ErrNotString == "ErrNotString"

\* a path is the list of its segments; the empty path is ""
NoPath == <<>>
writePathConfig(createPath, updatePath, deletePath, usesPatch) ==
  [createPath |-> createPath, updatePath |-> updatePath, deletePath |-> deletePath, usesPatch |-> usesPatch]

objectWritePaths ==
  [objectName \in {"labels", "senders", "teams", "campaigns", "contacts", "sender-profiles"} |->
    CASE objectName = "labels" -> writePathConfig(<<"v1", "labels">>, <<"v1", "labels">>, <<"v1", "labels">>, FALSE)
      [] objectName = "senders" -> writePathConfig(<<"v1", "sender">>, <<"v1", "sender">>, NoPath, FALSE)
      [] objectName = "teams" -> writePathConfig(<<"v2", "teams">>, NoPath, NoPath, FALSE)
      [] objectName = "campaigns" ->
           writePathConfig(<<"v1", "auto", "campaign">>, <<"v1", "campaign">>, <<"v1", "auto", "campaign">>, FALSE)
      [] objectName = "contacts" -> writePathConfig(<<"v2", "contacts">>, <<"v2", "contacts">>, <<"v2", "contacts">>, TRUE)
      [] objectName = "sender-profiles" ->
           writePathConfig(<<"v1", "sender-profile">>, <<"v1", "sender-profile">>, <<"v1", "sender-profile">>, FALSE)]

\* common.WriteParams and common.DeleteParams; NoData is a nil RecordData
NoData == [kind |-> "nil"]
WriteParams(objectName, recordId, recordData) ==
  [op |-> "write", ObjectName |-> objectName, RecordId |-> recordId, RecordData |-> recordData]
DeleteParams(objectName, recordId) ==
  [op |-> "delete", ObjectName |-> objectName, RecordId |-> recordId, RecordData |-> NoData]
\* common.WriteParams.IsUpdate
IsUpdate(p) == p.RecordId # ""

\* (*http.Request, error): [err, method, url, body]
NoRequest == [method |-> "", url |-> NoPage, body |-> NoData]
HTTPErr(e) == [err |-> e, req |-> NoRequest]
HTTPOk(method, url, body) == [err |-> "", req |-> [method |-> method, url |-> url, body |-> body]]

\* mutant: every update is a PUT
buildUpdateURL_AlwaysPut(p, config) ==
  IF config.updatePath = NoPath THEN HTTPErr(ErrOperationNotSupportedForObject)
  ELSE HTTPOk("PUT", NewURL(SuperSendBaseURL, config.updatePath \o <<p.RecordId>>), NoData)

buildUpdateURL(p, config) ==
  IF config.updatePath = NoPath THEN HTTPErr(ErrOperationNotSupportedForObject)
  ELSE HTTPOk(IF config.usesPatch THEN "PATCH" ELSE "PUT",
              NewURL(SuperSendBaseURL, config.updatePath \o <<p.RecordId>>), NoData)

buildCreateURL(config) ==
  IF config.createPath = NoPath THEN HTTPErr(ErrOperationNotSupportedForObject)
  ELSE HTTPOk("POST", NewURL(SuperSendBaseURL, config.createPath), NoData)

buildWriteURL(p, config) ==
  IF IsUpdate(p) THEN buildUpdateURL(p, config) ELSE buildCreateURL(config)

supersend_buildWriteRequest(p) ==
  IF p.ObjectName \notin DOMAIN objectWritePaths THEN HTTPErr(ErrOperationNotSupportedForObject)
  ELSE LET u == buildWriteURL(p, objectWritePaths[p.ObjectName]) IN
       IF u.err # "" THEN u
       ELSE HTTPOk(u.req.method, u.req.url, p.RecordData)

\* mutant: the delete path of the object is not looked at
supersend_buildDeleteRequest_NoPathCheck(p) ==
  IF p.ObjectName \notin DOMAIN objectWritePaths THEN HTTPErr(ErrOperationNotSupportedForObject)
  ELSE HTTPOk("DELETE",
              NewURL(SuperSendBaseURL, objectWritePaths[p.ObjectName].deletePath \o <<p.RecordId>>), NoData)

supersend_buildDeleteRequest(p) ==
  IF p.ObjectName \notin DOMAIN objectWritePaths \/ objectWritePaths[p.ObjectName].deletePath = NoPath
    THEN HTTPErr(ErrOperationNotSupportedForObject)
  ELSE HTTPOk("DELETE",
              NewURL(SuperSendBaseURL, objectWritePaths[p.ObjectName].deletePath \o <<p.RecordId>>), NoData)

\* jsonquery.Query.StringOptional
StringOptional(node, key) ==
  LET r == getInnerKeyOptional(node, key) IN
  IF r.nil THEN r
  ELSE IF r.node.kind = "string" THEN r ELSE QErr(ErrNotString)

\* a response without a body
NoBody == [kind |-> "nobody"]
\* common.WriteResult and common.DeleteResult
WriteResult(recordId, data) == [Success |-> TRUE, RecordId |-> recordId, Data |-> data]
DeleteResult == [Success |-> TRUE, RecordId |-> "", Data |-> NoData]
WriteErr(e) == [err |-> e, result |-> NoResult]

supersend_parseWriteResponse(p, resp) ==
  IF resp.body = NoBody THEN [err |-> "", result |-> WriteResult("", NoData)]
  ELSE LET dataNode == ObjectOptional(resp.body, "data") IN
       IF dataNode.err # "" THEN WriteErr(dataNode.err)
       ELSE LET responseNode == IF ~dataNode.nil THEN dataNode.node ELSE resp.body
                recordID == StringOptional(responseNode, "id")
            IN IF recordID.err # "" THEN WriteErr(recordID.err)
               ELSE IF ~IsObject(responseNode) THEN WriteErr(ErrNotObject)
               ELSE [err |-> "",
                     result |-> WriteResult(IF recordID.nil THEN "" ELSE recordID.node.text.s, responseNode)]

supersend_parseDeleteResponse(p, resp) ==
  IF resp.code # 200 /\ resp.code # 204 THEN WriteErr(ErrRequestFailed)
  ELSE [err |-> "", result |-> DeleteResult]

\* common.WriteParams.ValidateParams and common.DeleteParams.ValidateParams
ValidateWriteParams(p) ==
  IF p.ObjectName = "" THEN ErrMissingObjects
  ELSE IF p.op = "write" /\ p.RecordData = NoData THEN ErrMissingRecordData
  ELSE IF p.op = "delete" /\ p.RecordId = "" THEN ErrMissingRecordID
  ELSE ""

\* what callers write and delete
WriteObjects == DOMAIN objectWritePaths \cup {"unsupported", ""}
RecordIds == {"", "id-1", "id-2"}
RecordDatas == {NoData, JObj("name" :> JStr(PlainText("a"))), JObj("name" :> JStr(PlainText("b")))}
WriteCalls ==
  {WriteParams(o, id, d) : o \in WriteObjects, id \in RecordIds, d \in RecordDatas}
  \cup {DeleteParams(o, id) : o \in WriteObjects, id \in RecordIds}
\* what the upstream answers a write or a delete with
WriteResponses ==
  {[code |-> c, link |-> NoPage, body |-> b] :
     c \in {200, 202, 204},
     b \in {NoBody,
            JObj("data" :> JObj("id" :> JStr(PlainText("id-9"))) @@ "success" :> JBool(TRUE)),
            JObj("id" :> JStr(PlainText("id-9"))),
            JObj("data" :> JStr(PlainText("x"))),
            JObj("data" :> JObj("id" :> JBool(TRUE))),
            JObj("success" :> JBool(TRUE))}}

\* conn.Write(ctx, params) and conn.Delete(ctx, params): validation of the parameters
WriteOrDelete ==
  /\ pc = "idle"
  /\ \E p \in WriteCalls :
       /\ params' = p
       /\ err' = ValidateWriteParams(p)
       /\ pc' = IF ValidateWriteParams(p) = "" THEN "validated" ELSE "failed"
  /\ conn' = "supersend"
  /\ request' = NoRequest
  /\ UNCHANGED <<response, result, pages, ex>>

\* BuildRequest handler of the writer
BuildWriteRequest ==
  /\ pc = "validated" /\ params.op = "write"
  /\ LET r == supersend_buildWriteRequest(params) IN
       /\ request' = r.req
       /\ err' = r.err
       /\ pc' = IF r.err = "" THEN "requested" ELSE "failed"
  /\ UNCHANGED <<conn, params, response, result, pages, ex>>

\* BuildRequest handler of the deleter
BuildDeleteRequest ==
  /\ pc = "validated" /\ params.op = "delete"
  /\ LET r == supersend_buildDeleteRequest(params) IN
       /\ request' = r.req
       /\ err' = r.err
       /\ pc' = IF r.err = "" THEN "requested" ELSE "failed"
  /\ UNCHANGED <<conn, params, response, result, pages, ex>>

\* the transport sends the request and returns a 2xx response
ExecuteWrite ==
  /\ pc = "requested"
  /\ response' \in WriteResponses
  /\ pc' = "responded"
  /\ UNCHANGED <<conn, params, request, result, err, pages, ex>>

\* ParseResponse handler of the writer
ParseWriteResponse ==
  /\ pc = "responded" /\ params.op = "write"
  /\ LET r == supersend_parseWriteResponse(params, response) IN
       /\ err' = r.err
       /\ result' = r.result
       /\ pc' = IF r.err = "" THEN "returned" ELSE "failed"
  /\ UNCHANGED <<conn, params, request, response, pages, ex>>

\* ParseResponse handler of the deleter
ParseDeleteResponse ==
  /\ pc = "responded" /\ params.op = "delete"
  /\ LET r == supersend_parseDeleteResponse(params, response) IN
       /\ err' = r.err
       /\ result' = r.result
       /\ pc' = IF r.err = "" THEN "returned" ELSE "failed"
  /\ UNCHANGED <<conn, params, request, response, pages, ex>>

NextWrite ==
  \/ WriteOrDelete \/ BuildWriteRequest \/ BuildDeleteRequest
  \/ ExecuteWrite \/ ExecuteFails \/ ParseWriteResponse \/ ParseDeleteResponse

SpecWrite == Init /\ [][NextWrite]_vars

(***************************************************************************)
(* Okta: write (providers/okta/connector.go).  The variables are used as   *)
(* in the SuperSend write.                                                 *)
(***************************************************************************)
\* mutant: an update is a PUT, for users too
okta_buildWriteRequest_AlwaysPut(p) ==
  LET path == LookupURLPath("okta", p.ObjectName) IN
  IF path.err # "" THEN HTTPErr(path.err)
  ELSE IF p.RecordId # "" THEN HTTPOk("PUT", NewURL(OktaBaseURL, path.path \o <<p.RecordId>>), p.RecordData)
  ELSE HTTPOk("POST", NewURL(OktaBaseURL, path.path), p.RecordData)

okta_buildWriteRequest(p) ==
  LET path == LookupURLPath("okta", p.ObjectName) IN
  IF path.err # "" THEN HTTPErr(path.err)
  ELSE IF p.RecordId # ""
    THEN HTTPOk(IF p.ObjectName # "users" THEN "PUT" ELSE "POST",
                NewURL(OktaBaseURL, path.path \o <<p.RecordId>>), p.RecordData)
  ELSE HTTPOk("POST", NewURL(OktaBaseURL, path.path), p.RecordData)

\* jsonquery.Query.TextWithDefault: [err, text]; the default for a missing or null member
TextWithDefault(node, key, default) ==
  LET r == getInnerKeyOptional(node, key) IN
  IF r.nil THEN [err |-> "", text |-> default]
  ELSE IF r.node.kind = "string" THEN [err |-> "", text |-> r.node.text.s]
  ELSE [err |-> ErrNotString, text |-> ""]

okta_parseWriteResponse(p, resp) ==
  IF resp.body = NoBody THEN [err |-> "", result |-> WriteResult("", NoData)]
  ELSE LET recordID == TextWithDefault(resp.body, "id", p.RecordId) IN
       IF recordID.err # "" THEN WriteErr(recordID.err)
       ELSE IF ~IsObject(resp.body) THEN WriteErr(ErrNotObject)
       ELSE [err |-> "", result |-> WriteResult(recordID.text, resp.body)]

\* what callers write to Okta, and what the upstream answers
OktaWriteCalls ==
  {WriteParams(o, id, d) : o \in {"users", "groups", "apps", "nosuch", ""}, id \in RecordIds, d \in RecordDatas}
OktaWriteResponses ==
  {[code |-> c, link |-> NoPage, body |-> b] :
     c \in {200, 204},
     b \in {NoBody,
            JObj("id" :> JStr(PlainText("id-9")) @@ "status" :> JStr(PlainText("ACTIVE"))),
            JObj("status" :> JStr(PlainText("ACTIVE"))),
            JObj("id" :> JNull),
            JArr(<<>>)}}

\* conn.Write(ctx, params): validation of the parameters
OktaWrite ==
  /\ pc = "idle"
  /\ \E p \in OktaWriteCalls :
       /\ params' = p
       /\ err' = ValidateWriteParams(p)
       /\ pc' = IF ValidateWriteParams(p) = "" THEN "validated" ELSE "failed"
  /\ conn' = "okta"
  /\ request' = NoRequest
  /\ UNCHANGED <<response, result, pages, ex>>

\* BuildRequest handler of the writer
OktaBuildWriteRequest ==
  /\ pc = "validated"
  /\ LET r == okta_buildWriteRequest(params) IN
       /\ request' = r.req
       /\ err' = r.err
       /\ pc' = IF r.err = "" THEN "requested" ELSE "failed"
  /\ UNCHANGED <<conn, params, response, result, pages, ex>>

\* the transport sends the request and returns a 2xx response
OktaExecuteWrite ==
  /\ pc = "requested"
  /\ response' \in OktaWriteResponses
  /\ pc' = "responded"
  /\ UNCHANGED <<conn, params, request, result, err, pages, ex>>

\* ParseResponse handler of the writer
OktaParseWriteResponse ==
  /\ pc = "responded"
  /\ LET r == okta_parseWriteResponse(params, response) IN
       /\ err' = r.err
       /\ result' = r.result
       /\ pc' = IF r.err = "" THEN "returned" ELSE "failed"
  /\ UNCHANGED <<conn, params, request, response, pages, ex>>

NextOktaWrite == OktaWrite \/ OktaBuildWriteRequest \/ OktaExecuteWrite \/ ExecuteFails \/ OktaParseWriteResponse

SpecOktaWrite == Init /\ [][NextOktaWrite]_vars

(***************************************************************************)
(* The page loop against an upstream that holds MaxPages pages: the caller *)
(* of testscenario.ReadThroughPages reads page after page until the result *)
(* is done or a call fails.  Every step of the loop is taken in the end:   *)
(* the read is synchronous and nothing inside it waits.                    *)
(***************************************************************************)
\* one object of each kind of filter: in the query, in the connector, none
LoopObjects(provider) ==
  IF provider = "okta" THEN {"users", "devices", "brands"} ELSE {"senders"}

InitLoop ==
  /\ \E x \in {y \in ReadInputs : y.p.ObjectName \in LoopObjects(y.provider)} :
       /\ conn = x.provider
       /\ params = x.p
  /\ pc = "validated"
  /\ request = NoPage
  /\ response = NoResponse
  /\ result = NoResult
  /\ err = ""
  /\ pages = 0
  /\ ex = NoExtract

\* the answers that announce no next page: no Link next relation, has_more false
LastResponses(provider, objectName, n, k) ==
  {ResponseFor(provider, objectName, MkRecords(provider, codes), FALSE, k) : codes \in CodeSeqs(n)}
  \cup {[link |-> NoPage, body |-> MalformedBody]}

\* the upstream answers; its last page announces no next page
ExecuteUpstream ==
  /\ pc = "requested"
  /\ response' \in IF pages + 1 < MaxPages THEN Responses(conn, params.ObjectName, LoopRecs, pages + 1)
                   ELSE LastResponses(conn, params.ObjectName, LoopRecs, pages + 1)
  /\ pc' = "responded"
  /\ UNCHANGED <<conn, params, request, result, err, pages, ex>>

\* the loop of the caller: the page is consumed and its token goes into the next call
Paginate ==
  /\ pc = "returned"
  /\ ~result.Done
  /\ pages < MaxPages
  /\ params' = [params EXCEPT !.NextPage = result.NextPage]
  /\ err' = ValidateParams(params)
  /\ pc' = "validated"
  /\ response' = NoResponse
  /\ result' = NoResult
  /\ UNCHANGED <<conn, request, pages, ex>>

NextLoop == BuildReadRequest \/ ExecuteUpstream \/ ExecuteFails \/ ParseReadResponse \/ Paginate

SpecLoop == InitLoop /\ [][NextLoop]_vars /\ WF_vars(NextLoop)

(***************************************************************************)
(* A SuperSend read of several pages whose calls pass page-size hints of   *)
(* their own: the first call has no token, every later call has the token  *)
(* of the page before it.                                                  *)
(***************************************************************************)
FirstHints == {0, 50, 250}
LaterHints == {0, 50, 150}

InitOffset ==
  /\ conn = "supersend"
  /\ \E o \in ListObjects("supersend"), ps \in FirstHints :
       params = ReadParams(o, RequestedFields, 0, 0, ps, NoPage)
  /\ pc = "validated"
  /\ request = NoPage
  /\ response = NoResponse
  /\ result = NoResult
  /\ err = ""
  /\ pages = 0
  /\ ex = NoExtract

\* the upstream answers with a page of one record, with and without more to come
ExecutePage ==
  /\ pc = "requested"
  /\ \E more \in BOOLEAN :
       response' = ResponseFor(conn, params.ObjectName, MkRecords(conn, <<1>>), more, pages + 1)
  /\ pc' = "responded"
  /\ UNCHANGED <<conn, params, request, result, err, pages, ex>>

\* the caller asks for the next page with the token of the last one and a hint of its choice
NextPageCallWithHint ==
  /\ pc = "returned"
  /\ ~result.Done
  /\ pages < MaxPages + 1
  /\ \E ps \in LaterHints :
       params' = [params EXCEPT !.NextPage = result.NextPage, !.PageSize = ps]
  /\ err' = ValidateParams(params)
  /\ pc' = "validated"
  /\ UNCHANGED <<conn, request, response, result, pages, ex>>

NextOffset == BuildReadRequest \/ ExecutePage \/ ParseReadResponse \/ NextPageCallWithHint

SpecOffset == InitOffset /\ [][NextOffset]_vars

(***************************************************************************)
(* Two reads that run concurrently on one connector.  In this              *)
(* specification conn is [provider, tables], the connector with the        *)
(* package-level tables of its provider, and every other variable holds    *)
(* one value per read: params[r], pc[r], request[r], response[r], err[r],  *)
(* pages[r]; result[r] is the list of the page results read r returned.    *)
(***************************************************************************)
Readers == {1, 2}
\* pages the upstream holds of every object
PairPages == 3

\* the package-level variables: okta/handlers.go:30-49, supersend/handlers.go:51-83
StaticTables(provider) ==
  IF provider = "okta"
    THEN [providerSide |-> objectsWithProviderSideFilter, connectorSide |-> objectsWithConnectorSideFilter]
    ELSE [writePaths |-> objectWritePaths]

\* the page of the upstream a request URL asks for: the cursor of Okta, offset / limit of SuperSend
PageOf(provider, url) ==
  IF provider = "okta" THEN (IF Atoi(QueryGet(url.query, "after")).ok THEN Atoi(QueryGet(url.query, "after")).n + 1 ELSE 1)
  ELSE LET o == Atoi(QueryGet(url.query, offsetParam))
           l == Atoi(QueryGet(url.query, limitParam))
       IN IF o.ok /\ l.ok /\ l.n > 0 THEN (o.n \div l.n) + 1 ELSE 1
\* the upstream answers a request by its URL: page k holds two records, updated at k and
\* k + 1, and every page but the last announces a next one
Upstream(provider, objectName, url) ==
  LET k == PageOf(provider, url) IN
  ResponseFor(provider, objectName, MkRecords(provider, <<k, k + 1>>), k < PairPages, k)

PairObjects(provider) ==
  IF provider = "okta" THEN {"devices", "users", "domains"} ELSE ListObjects(provider)
PairCalls(provider) ==
  {ReadParams(o, RequestedFields, s, u, 0, NoPage) :
     o \in PairObjects(provider), s \in SinceValues, u \in UntilValues}

\* mutant: the request of the call that came first is the one every call parses with
RequestOf_First(r) == 1

\* the request a call parses its response with is the one it was handed as a parameter:
\* parseReadResponse(ctx, params, request, response) passes request.URL on to
\* makeNextRecordsURL, and no handler keeps a request in the connector
RequestOf(r) == r

InitPair ==
  /\ \E pr \in Providers :
       /\ conn = [provider |-> pr, tables |-> StaticTables(pr)]
       /\ params \in [Readers -> PairCalls(pr)]
  /\ pc = [r \in Readers |-> "validated"]
  /\ request = [r \in Readers |-> NoPage]
  /\ response = [r \in Readers |-> NoResponse]
  /\ result = [r \in Readers |-> <<>>]
  /\ err = [r \in Readers |-> ""]
  /\ pages = [r \in Readers |-> 0]
  /\ ex = NoExtract

\* BuildRequest handler, called by one of the reads
ConcurrentBuildRequest ==
  \E r \in Readers :
    /\ pc[r] = "validated"
    /\ LET q == buildReadRequest(conn.provider, params[r]) IN
         /\ request' = [request EXCEPT ![RequestOf(r)] = q.url]
         /\ err' = [err EXCEPT ![r] = q.err]
         /\ pc' = [pc EXCEPT ![r] = IF q.err = "" THEN "requested" ELSE "failed"]
    /\ UNCHANGED <<conn, params, response, result, pages, ex>>

\* the transport, safe for concurrent use, answers the request of one of the reads
ConcurrentExecute ==
  \E r \in Readers :
    /\ pc[r] = "requested"
    /\ response' = [response EXCEPT ![r] = Upstream(conn.provider, params[r].ObjectName, request[RequestOf(r)])]
    /\ pc' = [pc EXCEPT ![r] = "responded"]
    /\ UNCHANGED <<conn, params, request, result, err, pages, ex>>

\* ParseResponse handler, called by one of the reads; the tables are looked up, not written
ConcurrentParseResponse ==
  \E r \in Readers :
    /\ pc[r] = "responded"
    /\ LET x == parseReadResponse(conn.provider, params[r], request[RequestOf(r)], response[r]) IN
         /\ err' = [err EXCEPT ![r] = x.err]
         /\ result' = [result EXCEPT ![r] = IF x.err = "" THEN Append(@, x.result) ELSE @]
         /\ pages' = [pages EXCEPT ![r] = IF x.err = "" THEN @ + 1 ELSE @]
         /\ pc' = [pc EXCEPT ![r] = IF x.err = "" THEN "returned" ELSE "failed"]
    /\ UNCHANGED <<conn, params, request, response, ex>>

\* the caller of one of the reads asks for the next page with the token of its last one
ConcurrentNextPage ==
  \E r \in Readers :
    /\ pc[r] = "returned"
    /\ ~result[r][Len(result[r])].Done
    /\ params' = [params EXCEPT ![r].NextPage = result[r][Len(result[r])].NextPage]
    /\ pc' = [pc EXCEPT ![r] = "validated"]
    /\ UNCHANGED <<conn, request, response, result, err, pages, ex>>

NextPair == ConcurrentBuildRequest \/ ConcurrentExecute \/ ConcurrentParseResponse \/ ConcurrentNextPage

SpecPair == InitPair /\ [][NextPair]_vars

(***************************************************************************)
(* A whole read against an upstream that holds a list of records and       *)
(* hands them out in pages of two.  In this specification response carries *)
(* the records of the upstream along with the answer in flight, and result *)
(* is the list of the page results returned so far.                        *)
(***************************************************************************)
\* records the upstream holds
UpstreamRecs == 4

\* the timestamps of the records of the upstream: none (-1) or an instant
UpstreamStamps == UNION {[1..n -> {-1} \cup 1..MaxT] : n \in 0..UpstreamRecs}
\* the pages of the upstream: at least one, every page but the last holds two records
UpstreamPages(records) == IF Len(records) = 0 THEN 1 ELSE (Len(records) + 1) \div 2
UpstreamPage(records, k) ==
  SubSeq(records, 2 * k - 1, IF 2 * k <= Len(records) THEN 2 * k ELSE Len(records))

WholeObjects(provider) == IF provider = "okta" THEN {"devices"} ELSE {"senders"}

InitWhole ==
  /\ \E pr \in Providers, stamps \in UpstreamStamps :
       /\ conn = pr
       /\ \E o \in WholeObjects(pr), s \in SinceValues, u \in UntilValues :
            params = ReadParams(o, RequestedFields, s, u, 2, NoPage)
       /\ response = [link |-> NoPage, body |-> JNull, upstream |-> MkRecords(pr, stamps)]
  /\ pc = "validated"
  /\ request = NoPage
  /\ result = <<>>
  /\ err = ""
  /\ pages = 0
  /\ ex = NoExtract

\* the upstream answers the request with the page its URL asks for
ExecuteWhole ==
  /\ pc = "requested"
  /\ LET k == PageOf(conn, request)
         x == ResponseFor(conn, params.ObjectName, UpstreamPage(response.upstream, k),
                          k < UpstreamPages(response.upstream), k)
     IN response' = [link |-> x.link, body |-> x.body, upstream |-> response.upstream]
  /\ pc' = "responded"
  /\ UNCHANGED <<conn, params, request, result, err, pages, ex>>

\* ParseResponse handler; the caller keeps the page result
ParseWhole ==
  /\ pc = "responded"
  /\ LET r == parseReadResponse(conn, params, request, response) IN
       /\ err' = r.err
       /\ result' = IF r.err = "" THEN Append(result, r.result) ELSE result
       /\ pages' = IF r.err = "" THEN pages + 1 ELSE pages
       /\ pc' = IF r.err = "" THEN "returned" ELSE "failed"
  /\ UNCHANGED <<conn, params, request, response, ex>>

\* the caller asks for the next page with the token of the last one
NextPageWhole ==
  /\ pc = "returned"
  /\ ~result[Len(result)].Done
  /\ params' = [params EXCEPT !.NextPage = result[Len(result)].NextPage]
  /\ pc' = "validated"
  /\ UNCHANGED <<conn, request, response, result, err, pages, ex>>

NextWhole == BuildReadRequest \/ ExecuteWhole \/ ParseWhole \/ NextPageWhole

SpecWhole == InitWhole /\ [][NextWhole]_vars

(***************************************************************************)
(* SuperSend reads answered with every form of pagination metadata.        *)
(***************************************************************************)
\* what the has_more member may hold
HasMoreValues == {JNull, JBool(TRUE), JBool(FALSE), JStr(PlainText("true")), JArr(<<>>)}
\* what the pagination member may hold
PaginationValues ==
  {JNull, JBool(TRUE), JStr(PlainText("x")), JArr(<<>>), JObj(NoMembers)}
  \cup {JObj("has_more" :> v) : v \in HasMoreValues}
\* documents without the pagination member: a list, a wrapped single object, a bare single
\* object, a root array
PlainBodies ==
  {JObj("data" :> JArr(<<MkRecord("supersend", 1, 2)>>)),
   JObj("data" :> MkRecord("supersend", 1, 2) @@ "success" :> JBool(TRUE)),
   MkRecord("supersend", 1, 2),
   JArr(<<MkRecord("supersend", 1, 2)>>)}
MetadataBodies ==
  PlainBodies
  \cup {JObj("pagination" :> pg @@ b.members) : b \in {x \in PlainBodies : IsObject(x)}, pg \in PaginationValues}

InitHasMore ==
  /\ conn = "supersend"
  /\ \E o \in SuperSendObjects, s \in SinceValues :
       params = ReadParams(o, RequestedFields, s, 0, 0, NoPage)
  /\ pc = "validated"
  /\ request = NoPage
  /\ response = NoResponse
  /\ result = NoResult
  /\ err = ""
  /\ pages = 0
  /\ ex = NoExtract

\* the upstream answers with one of the documents
ExecuteAnyMetadata ==
  /\ pc = "requested"
  /\ \E b \in MetadataBodies : response' = [link |-> NoPage, body |-> b]
  /\ pc' = "responded"
  /\ UNCHANGED <<conn, params, request, result, err, pages, ex>>

NextHasMore == BuildReadRequest \/ ExecuteAnyMetadata \/ ParseReadResponse \/ NextPageCall

SpecHasMore == InitHasMore /\ [][NextHasMore]_vars

(***************************************************************************)
(* The Record Extractors on documents of every envelope shape.             *)
(***************************************************************************)
\* the NodeRecordsFunc parseReadResponse hands to ParseResultFiltered
RecordsFunc(provider, objectName, doc) ==
  IF provider = "okta" THEN MakeRecordsFunc(responseField(objectName), doc)
  ELSE getRecords(LookupArrayFieldName(objectName), doc)

PlainRecord(i) == JObj("id" :> JStr(IntText(i)))
\* arrays of at most MaxRecs records
RecordArrays == {JArr(q) : q \in UNION {[1..k -> {PlainRecord(1), PlainRecord(2)}] : k \in 0..MaxRecs}}
\* what a member of a document may hold
MemberValues ==
  RecordArrays
  \cup {JNull, JStr(PlainText("x")), JBool(TRUE), PlainRecord(1), JObj(NoMembers)}
  \cup {JObj(k :> v) : k \in {"conversations", "items"},
                       v \in RecordArrays \cup {JNull, PlainRecord(1), JStr(PlainText("x"))}}
ExtractDocs ==
  MemberValues
  \cup {JObj(k :> v) : k \in {"data", "domains", "other"}, v \in MemberValues}
  \cup {JObj("id" :> JStr(PlainText("org-1")) @@ "success" :> JBool(TRUE))}
  \cup {JObj("data" :> v @@ "success" :> JBool(TRUE)) : v \in {PlainRecord(1), JArr(<<PlainRecord(1)>>)}}
  \cup {JObj("data" :> JObj("page" :> v)) : v \in MemberValues}

InitExtract ==
  /\ conn = "okta"
  /\ params = NoParams
  /\ pc = "idle"
  /\ request = NoPage
  /\ response = NoResponse
  /\ result = NoResult
  /\ err = ""
  /\ pages = 0
  /\ \E pr \in Providers, doc \in ExtractDocs :
       \E o \in (IF pr = "okta" THEN OktaObjects ELSE SuperSendObjects) :
         ex = [stage |-> "in", provider |-> pr, object |-> o, path |-> "", before |-> doc, doc |-> doc,
               out |-> RecsOk(<<>>), again |-> RecsOk(<<>>)]

\* mutant: the single-object extractor unwraps the document in place
DocumentAfter_Unwrapped(provider, objectName, doc) ==
  IF provider = "supersend" /\ HasKey(doc, "data") /\ IsObject(doc.members["data"])
    THEN doc.members["data"] ELSE doc

\* the document the caller holds once the extractor returned: getRecords,
\* getSingleObjectAsArray and getNestedRecords read the node (IsObject, jsonquery lookups)
\* and assign only to their locals; the records returned are nodes of the document
DocumentAfter(provider, objectName, doc) == doc

\* the extractor of ex.provider for the object ex.object, applied to ex.doc
Extract ==
  /\ ex.stage = "in"
  /\ ex' = [ex EXCEPT !.stage = "out", !.out = RecordsFunc(ex.provider, ex.object, ex.doc),
                      !.doc = DocumentAfter(ex.provider, ex.object, ex.doc)]
  /\ UNCHANGED <<conn, params, pc, request, response, result, err, pages>>

\* dotted response keys, of two and of three components
NestedPaths == {"data.conversations", "data.items", "data.page.items"}

\* getNestedRecords applied to ex.doc with a dotted response key
ExtractNested ==
  /\ ex.stage = "in"
  /\ ex.provider = "supersend"
  /\ ex.object = "conversation/latest-by-profile"
  /\ \E path \in NestedPaths :
       ex' = [ex EXCEPT !.stage = "nested", !.path = path, !.out = getNestedRecords(ex.doc, path),
                        !.doc = DocumentAfter(ex.provider, ex.object, ex.doc)]
  /\ UNCHANGED <<conn, params, pc, request, response, result, err, pages>>

\* the caller applies the same extractor to the document it holds a second time
ExtractAgain ==
  /\ ex.stage \in {"out", "nested"}
  /\ ex' = [ex EXCEPT !.stage = "again",
                      !.again = IF ex.stage = "out" THEN RecordsFunc(ex.provider, ex.object, ex.doc)
                                ELSE getNestedRecords(ex.doc, ex.path),
                      !.doc = DocumentAfter(ex.provider, ex.object, ex.doc)]
  /\ UNCHANGED <<conn, params, pc, request, response, result, err, pages>>

NextExtract == Extract \/ ExtractNested \/ ExtractAgain

SpecExtract == InitExtract /\ [][NextExtract]_vars

(***************************************************************************)
(* Properties of the Record Extractors (checked under SpecExtract).        *)
(***************************************************************************)
Extracted == ex.stage = "out"
\* the envelope descriptor the schema gives the extracted object
OktaRootArrayObject == ex.provider = "okta" /\ ex.object # "domains"
SuperSendSingleObject == ex.provider = "supersend" /\ ex.object = "org"
IsWrappedArray(doc, k) == HasKey(doc, k) /\ IsArray(doc.members[k])
FlatKeyOf(provider, objectName) ==
  IF provider = "okta" /\ objectName = "domains" THEN "domains"
  ELSE IF provider = "supersend" /\ objectName = "senders" THEN "data"
  ELSE ""
EmptyDescriptor == OktaRootArrayObject \/ SuperSendSingleObject

\* C8 as stated: under the empty descriptor a root array yields its elements in order,
\* and a document {"data": [...]} is no match for the empty descriptor.
C8_AsStated ==
  (Extracted /\ EmptyDescriptor) =>
    /\ IsArray(ex.doc) => ex.out = RecsOk(ex.doc.elems)
    /\ IsWrappedArray(ex.doc, "data") => ex.out.err \in ShapeErrors

\* C8 (amended): for Okta (every object but domains) the empty descriptor is the root
\* array: a root array yields exactly its elements in order, any other document, among them
\* {"data": [...]}, is a shape error; the flat key "data" (SuperSend senders) yields the
\* elements of {"data": [...]}.  For SuperSend the empty descriptor is the single-object
\* marker: a root array is a shape error and {"data": [...]} is one record, the document.
C8_RootArray ==
  Extracted =>
    /\ OktaRootArrayObject =>
         IF IsArray(ex.doc) THEN ex.out = RecsOk(ex.doc.elems) ELSE ex.out.err \in ShapeErrors
    /\ (ex.provider = "supersend" /\ ex.object = "senders" /\ IsWrappedArray(ex.doc, "data")) =>
         ex.out = RecsOk(ex.doc.members["data"].elems)
    /\ SuperSendSingleObject =>
         /\ IsArray(ex.doc) => ex.out.err \in ShapeErrors
         /\ IsWrappedArray(ex.doc, "data") => ex.out = RecsOk(<<ex.doc>>)

C8_Witness ==
  /\ Extracted /\ OktaRootArrayObject
  /\ IsArray(ex.doc) /\ Len(ex.doc.elems) = 2 /\ ex.doc.elems[1] # ex.doc.elems[2]
  /\ ex.out.records = ex.doc.elems

\* C9 as stated: single-object envelope (SuperSend org): for an object document the sole
\* record is the value of "data" when that key is present and the document otherwise; a
\* document that is no object is a shape error.
C9_AsStated ==
  (Extracted /\ SuperSendSingleObject) =>
    IF IsObject(ex.doc)
      THEN ex.out = RecsOk(<<IF HasKey(ex.doc, "data") THEN ex.doc.members["data"] ELSE ex.doc>>)
      ELSE ex.out.err \in ShapeErrors

\* C9 (amended): for an object document the sole record is the value of "data" when that
\* key holds a JSON object, and the whole document otherwise (key absent, or its value no
\* object); a document that is no object is a shape error; a success has exactly one record.
C9_SingleObject ==
  (Extracted /\ SuperSendSingleObject) =>
    /\ IsObject(ex.doc) =>
         ex.out = RecsOk(<<IF HasKey(ex.doc, "data") /\ IsObject(ex.doc.members["data"])
                             THEN ex.doc.members["data"] ELSE ex.doc>>)
    /\ ~IsObject(ex.doc) => ex.out.err \in ShapeErrors
    /\ ex.out.err = "" => Len(ex.out.records) = 1

C9_Witness ==
  /\ Extracted /\ SuperSendSingleObject
  /\ ex.doc = JObj("id" :> JStr(PlainText("org-1")) @@ "success" :> JBool(TRUE))
  /\ ex.out.err = "" /\ ex.out.records = <<ex.doc>>

\* C10 as stated: flat key (Okta domains, SuperSend senders): the value of the key must be
\* an array, whose elements are the records; a shape error if the key is absent or its
\* value is no array.
C10_AsStated ==
  (Extracted /\ FlatKeyOf(ex.provider, ex.object) # "") =>
    LET k == FlatKeyOf(ex.provider, ex.object) IN
    IF IsWrappedArray(ex.doc, k) THEN ex.out = RecsOk(ex.doc.members[k].elems)
    ELSE ex.out.err \in ShapeErrors

\* C10 (amended): for an object document, a key that holds an array yields its elements
\* and a key that holds a value that is neither null nor an array is a shape error; an
\* absent key is a shape error in Okta and an empty list of records, without error, in
\* SuperSend.
C10_FlatKey ==
  (Extracted /\ FlatKeyOf(ex.provider, ex.object) # "" /\ IsObject(ex.doc)) =>
    LET k == FlatKeyOf(ex.provider, ex.object) IN
    /\ IsWrappedArray(ex.doc, k) => ex.out = RecsOk(ex.doc.members[k].elems)
    /\ (HasKey(ex.doc, k) /\ ex.doc.members[k].kind \notin {"null", "array"}) => ex.out.err \in ShapeErrors
    /\ ~HasKey(ex.doc, k) =>
         IF ex.provider = "okta" THEN ex.out.err \in ShapeErrors ELSE ex.out = RecsOk(<<>>)

C10_Witness ==
  /\ Extracted /\ ex.provider = "supersend" /\ ex.object = "senders"
  /\ IsObject(ex.doc) /\ ~HasKey(ex.doc, "data") /\ HasKey(ex.doc, "other")
  /\ ex.out = RecsOk(<<>>)

\* a dotted response key has been applied to an object document
NestedExtracted == ex.stage = "nested" /\ IsObject(ex.doc)
\* where following the components keys[i..] from node ends: at an object ("object"), at a
\* component that is absent or null ("missing"), or at a value of another type ("other")
RECURSIVE Descend(_, _, _)
Descend(node, keys, i) ==
  IF i > Len(keys) THEN [at |-> "object", node |-> node]
  ELSE IF ~HasKey(node, keys[i]) \/ node.members[keys[i]].kind = "null" THEN [at |-> "missing", node |-> JNull]
  ELSE IF ~IsObject(node.members[keys[i]]) THEN [at |-> "other", node |-> JNull]
  ELSE Descend(node.members[keys[i]], keys, i + 1)
PathParts == SplitDots(ex.path)
LastPart == PathParts[Len(PathParts)]
\* the value the components before the last lead to
PathParent == Descend(ex.doc, SubSeq(PathParts, 1, Len(PathParts) - 1), 1)

\* C11 as stated: a dotted path is walked left to right; a missing intermediate component
\* is the key-not-found error, one that is no object a shape error; the last component
\* must be an array, whose elements are the records: absent, it is the key-not-found error.
C11_AsStated ==
  NestedExtracted =>
    CASE PathParent.at = "missing" -> ex.out.err = ErrKeyNotFound
      [] PathParent.at = "other" -> ex.out.err \in ShapeErrors
      [] OTHER ->
           IF IsWrappedArray(PathParent.node, LastPart)
             THEN ex.out = RecsOk(PathParent.node.members[LastPart].elems)
           ELSE IF ~HasKey(PathParent.node, LastPart) THEN ex.out.err = ErrKeyNotFound
           ELSE ex.out.err \in ShapeErrors

\* C11 (amended): a dotted path is walked left to right; an intermediate component that is
\* absent or null is the key-not-found error and one that is no object a shape error; a
\* last component that holds an array yields its elements, one that is absent or null
\* yields an empty list of records without error, and any other value is a shape error.
C11_DottedPath ==
  NestedExtracted =>
    CASE PathParent.at = "missing" -> ex.out = RecsErr(ErrKeyNotFound)
      [] PathParent.at = "other" -> ex.out.err \in ShapeErrors
      [] OTHER ->
           IF IsWrappedArray(PathParent.node, LastPart)
             THEN ex.out = RecsOk(PathParent.node.members[LastPart].elems)
           ELSE IF ~HasKey(PathParent.node, LastPart) \/ PathParent.node.members[LastPart].kind = "null"
             THEN ex.out = RecsOk(<<>>)
           ELSE ex.out.err \in ShapeErrors

\* "data.items" on {"data": {"items": [{"id": 1}]}} yields the one record
C11_Witness ==
  /\ ex.stage = "nested" /\ ex.path = "data.items"
  /\ ex.doc = JObj("data" :> JObj("items" :> JArr(<<PlainRecord(1)>>)))
  /\ ex.out = RecsOk(<<PlainRecord(1)>>)

PageRecords ==
  LET b == response.body IN
  IF IsArray(b) THEN b.elems
  ELSE IF HasKey(b, "domains") THEN b.members["domains"].elems
  ELSE IF HasKey(b, "data")
    THEN (IF IsArray(b.members["data"]) THEN b.members["data"].elems
          ELSE b.members["data"].members["conversations"].elems)
  ELSE <<>>
WellFormedBody == response.body # MalformedBody
\* the has-more flag of a SuperSend body
BodyHasMore == response.body.members["pagination"].members["has_more"].b
\* the timestamp of a record of the page: -1 none, 0 unparsable, else the instant
Stamp(record) ==
  IF ~HasKey(record, TimestampKey(conn)) THEN -1
  ELSE IF record.members[TimestampKey(conn)].text.form = "time"
    THEN record.members[TimestampKey(conn)].text.n
  ELSE 0
RawRows == [i \in 1..Len(result.Data) |-> result.Data[i].Raw]
\* since <= timestamp (when since is set) and timestamp < until (when until is set)
InClaimedWindow(record) ==
  /\ Stamp(record) >= 1
  /\ params.Since # 0 => params.Since <= Stamp(record)
  /\ params.Until # 0 => Stamp(record) < params.Until
SomeUnparsable == \E i \in 1..Len(PageRecords) : Stamp(PageRecords[i]) = 0

ChronologicalObjects == {"devices", "idps", "authorizationServers", "trustedOrigins", "zones",
                         "authenticators", "policies", "eventHooks"}
OktaConnectorSide == conn = "okta" /\ params.ObjectName \in ChronologicalObjects
SuperSendConnectorSide == conn = "supersend" /\ (params.Since # 0 \/ params.Until # 0)
ConnectorSide == OktaConnectorSide \/ SuperSendConnectorSide
Returned == pc = "returned" /\ WellFormedBody
Parsed == pc \in {"returned", "failed"} /\ WellFormedBody

\* C1: in every page result a read returned, the next-page token is non-empty if and only
\* if done is false.
C1_TokenIffNotDone ==
  pages > 0 => ((result.NextPage # NoPage) <=> ~result.Done)

\* the filter stopped a page whose response carried a next link
C1_Witness ==
  /\ pc = "returned" /\ OktaConnectorSide
  /\ response.link # NoPage
  /\ result.Done /\ result.NextPage = NoPage /\ result.Rows = 0

\* C2: for an Okta object filtered connector-side, a page of ascending timestamps with a
\* record strictly past until yields exactly the in-window records, and the result is done
\* with an empty token, whatever Link header the response carries.
C2_ChronologicalEarlyStop ==
  (/\ Returned /\ OktaConnectorSide /\ params.Until # 0
   /\ \A i \in 1..Len(PageRecords) : Stamp(PageRecords[i]) >= 1
   /\ \A i, j \in 1..Len(PageRecords) : i < j => Stamp(PageRecords[i]) <= Stamp(PageRecords[j])
   /\ \E i \in 1..Len(PageRecords) : Stamp(PageRecords[i]) > params.Until)
  => /\ RawRows = SelectSeq(PageRecords, InClaimedWindow)
     /\ result.Done
     /\ result.NextPage = NoPage

\* [T1, T2, T3] with T1 < T2 < until < T3, no since, and a Link next relation
C2_Witness ==
  /\ Returned /\ OktaConnectorSide /\ params.Since = 0 /\ params.Until # 0
  /\ response.link # NoPage
  /\ Len(PageRecords) = 3
  /\ Stamp(PageRecords[1]) >= 1
  /\ Stamp(PageRecords[1]) < Stamp(PageRecords[2])
  /\ Stamp(PageRecords[2]) < params.Until
  /\ params.Until < Stamp(PageRecords[3])
  /\ RawRows = <<PageRecords[1], PageRecords[2]>>
  /\ result.Done /\ result.NextPage = NoPage

\* C3: in a SuperSend read with a time window every record is tested on its own, in any
\* arrival order, and the filter never stops the read: done is the negation of
\* pagination.has_more and a page that is not done carries a token.
C3_UnorderedFilter ==
  (Returned /\ SuperSendConnectorSide) =>
    /\ \A i \in 1..Len(PageRecords) :
         (\E j \in 1..Len(RawRows) : RawRows[j] = PageRecords[i]) <=> InClaimedWindow(PageRecords[i])
    /\ Len(RawRows) = Cardinality({i \in 1..Len(PageRecords) : InClaimedWindow(PageRecords[i])})
    /\ result.Done = ~BodyHasMore
    /\ ~result.Done => result.NextPage # NoPage

\* [T3, T1, T2] with T1 < T2 < until < T3 and has_more true
C3_Witness ==
  /\ Returned /\ SuperSendConnectorSide /\ params.Since = 0 /\ params.Until # 0
  /\ BodyHasMore
  /\ Len(PageRecords) = 3
  /\ Stamp(PageRecords[2]) >= 1
  /\ Stamp(PageRecords[2]) < Stamp(PageRecords[3])
  /\ Stamp(PageRecords[3]) < params.Until
  /\ params.Until < Stamp(PageRecords[1])
  /\ RawRows = <<PageRecords[2], PageRecords[3]>>
  /\ ~result.Done /\ result.NextPage # NoPage

\* C4: under connector-side filtering the rows are exactly the records whose timestamp is
\* present and inside [since, until), in page order; a record without the timestamp field
\* is left out and does not fail the page.
C4_PassPredicate ==
  (Parsed /\ ConnectorSide /\ ~SomeUnparsable) =>
    /\ pc = "returned"
    /\ RawRows = SelectSeq(PageRecords, InClaimedWindow)

\* both bounds set: a record at since passes, a record at until and one with no timestamp do not
C4_Witness ==
  /\ Returned /\ ConnectorSide /\ params.Since # 0 /\ params.Until # 0
  /\ Len(PageRecords) = 3
  /\ Stamp(PageRecords[1]) = params.Since
  /\ Stamp(PageRecords[2]) = params.Until
  /\ Stamp(PageRecords[3]) = -1
  /\ RawRows = <<PageRecords[1]>>

\* C5: under connector-side filtering a page with a record whose timestamp field is present
\* but unparsable fails with the timestamp parse error: no rows and no token are returned.
C5_UnparsableFailsPage ==
  (Parsed /\ ConnectorSide /\ SomeUnparsable) =>
    /\ pc = "failed"
    /\ err = ErrTimestampParse
    /\ result = NoResult

\* an unparsable record next to an in-window one, with a next page on offer
C5_Witness ==
  /\ pc = "failed" /\ WellFormedBody /\ ConnectorSide /\ err = ErrTimestampParse
  /\ \E i \in 1..Len(PageRecords) : InClaimedWindow(PageRecords[i])
  /\ SomeUnparsable
  /\ (response.link # NoPage \/ (conn = "supersend" /\ BodyHasMore))

\* C6: where the policy is ProviderSide or None the filter is the identity: every record of
\* the page is returned, in order, whatever the window and the timestamps, and done and the
\* token are the cursor builder's.
C6_IdentityFilter ==
  (Parsed /\ ~ConnectorSide) =>
    /\ pc = "returned"
    /\ RawRows = PageRecords
    /\ conn = "okta" => result.NextPage = response.link /\ result.Done = (response.link = NoPage)
    /\ conn = "supersend" => result.Done = ~BodyHasMore /\ (result.NextPage # NoPage) = BodyHasMore

\* an Okta object with no filter policy, a window, and records outside it or unparsable
C6_Witness ==
  /\ Returned /\ conn = "okta" /\ params.ObjectName = "brands"
  /\ params.Since # 0 /\ params.Until # 0
  /\ Len(PageRecords) = 3
  /\ Stamp(PageRecords[1]) = 0
  /\ Stamp(PageRecords[2]) > params.Until
  /\ Stamp(PageRecords[3]) = -1
  /\ RawRows = PageRecords
  /\ ~result.Done /\ result.NextPage = response.link

\* the request of a first page (no token supplied) has been built
FirstRequestBuilt == params.NextPage = NoPage /\ pc \in {"requested", "responded", "returned"}
ProviderSideObjects == {"users", "groups", "apps"}
NoPolicyObject ==
  conn = "okta" /\ params.ObjectName \notin (ProviderSideObjects \cup {"logs"} \cup ChronologicalObjects)

\* C7: a first-page request carries a time parameter only for provider-side objects: with
\* a non-zero Since, Okta logs gets since=<RFC3339 UTC>, users, groups and apps get
\* filter=lastUpdated gt "<RFC3339 UTC>", and every other request carries limit alone; for
\* an object with no policy no record of the page is left out.
C7_TimeFilterParams ==
  /\ FirstRequestBuilt =>
       IF conn = "okta" /\ params.Since # 0 /\ params.ObjectName = "logs"
         THEN /\ DOMAIN request.query = {"limit", "since"}
              /\ request.query["since"] = <<TimeText(params.Since, "Z")>>
       ELSE IF conn = "okta" /\ params.Since # 0 /\ params.ObjectName \in ProviderSideObjects
         THEN /\ DOMAIN request.query = {"limit", "filter"}
              /\ request.query["filter"] = <<FilterText(params.Since, "Z")>>
       ELSE DOMAIN request.query = {"limit"}
  /\ (FirstRequestBuilt /\ Returned /\ NoPolicyObject) => RawRows = PageRecords

\* an object with no policy read with a since: the request carries limit alone and the
\* record older than since is returned
C7_Witness ==
  /\ FirstRequestBuilt /\ Returned /\ NoPolicyObject /\ params.ObjectName = "features"
  /\ params.Since # 0
  /\ DOMAIN request.query = {"limit"}
  /\ Len(PageRecords) = 1
  /\ Stamp(PageRecords[1]) >= 1 /\ Stamp(PageRecords[1]) < params.Since
  /\ RawRows = PageRecords

\* the chronological filter met a record at or past until
FilterStopped ==
  /\ OktaConnectorSide /\ params.Until # 0
  /\ \E i \in 1..Len(PageRecords) : Stamp(PageRecords[i]) >= params.Until

RequestNumber(key, default) ==
  IF key \in DOMAIN request.query /\ request.query[key][1].form = "int"
    THEN request.query[key][1].n ELSE default
SuperSendHasMore == Returned /\ conn = "supersend" /\ BodyHasMore

C14_OffsetEnd ==
  (Returned /\ conn = "supersend" /\ ~BodyHasMore) =>
    /\ result.NextPage = NoPage
    /\ result.Done

\* a request with offset and limit, a page with a record, has_more false
C14_Witness ==
  /\ Returned /\ conn = "supersend" /\ ~BodyHasMore
  /\ QueryGet(request.query, "offset") = IntText(100) /\ QueryGet(request.query, "limit") = IntText(50)
  /\ result.Rows = 1
  /\ result.NextPage = NoPage /\ result.Done

\* the request of this call has been built
RequestBuilt == pc \in {"requested", "responded", "returned"}

\* C15: when the caller supplies a next-page token the request URL is the token: same
\* base, path and query; no schema path, limit or time parameter is put on it.
C15_ResumeVerbatim ==
  (RequestBuilt /\ params.NextPage # NoPage) => request = params.NextPage

\* users resumed with a page-size hint and a since: the request has the token's limit and
\* no filter
C15_Witness ==
  /\ RequestBuilt /\ conn = "okta" /\ params.ObjectName = "users"
  /\ params.NextPage = OktaNextLink("users", 1)
  /\ params.PageSize = 50 /\ params.Since # 0
  /\ request.path = <<"api", "v1", "users">>
  /\ request.query = ("limit" :> <<IntText(200)>>) @@ ("after" :> <<IntText(1)>>)

\* a read has been called and nothing was dispatched for it
Called == pc # "idle"
NothingDispatched == pc = "failed" /\ request = NoPage /\ response = NoResponse /\ pages = 0

\* C16 as stated: a read with an empty field set is rejected with the missing-fields error,
\* and a read with no object name with the missing-object error.
C16_AsStated ==
  /\ (Called /\ params.Fields = {}) => (NothingDispatched /\ err = ErrMissingFields)
  /\ (Called /\ params.ObjectName = "") => (NothingDispatched /\ err = ErrMissingObjects)

\* C16 (amended): a read with no object name is rejected with the missing-object error,
\* whether or not fields were requested; a read that names an object, known to the schema
\* or not, and requests no field is rejected with the missing-fields error; in both cases
\* no request is built or dispatched.
C16_InputValidation ==
  /\ (Called /\ params.ObjectName = "") => (NothingDispatched /\ err = ErrMissingObjects)
  /\ (Called /\ params.ObjectName # "" /\ params.Fields = {}) =>
       (NothingDispatched /\ err = ErrMissingFields)

\* no field requested of an object the SuperSend schema does not know
C16_Witness ==
  /\ Called /\ conn = "supersend" /\ params.ObjectName = "users" /\ params.Fields = {}
  /\ LookupURLPath(conn, params.ObjectName).err = ErrObjectNotFound
  /\ NothingDispatched /\ err = ErrMissingFields

\* the limit parameter of the request
RequestLimit == request.query["limit"]
Capped(hint, maximum) == IF hint <= 0 THEN maximum ELSE IF hint > maximum THEN maximum ELSE hint

ErrURL == "URLError"
TypedErrors == ShapeErrors \cup {ErrTimestampParse, ErrURL}
\* the Record Extractor fails on the body of the response
ExtractionFails == RecordsFunc(conn, params.ObjectName, response.body).err # ""
\* the extracted records hold a timestamp that does not parse, under connector-side filtering
TimestampFails ==
  /\ ~ExtractionFails /\ ConnectorSide
  /\ LET records == RecordsFunc(conn, params.ObjectName, response.body).records IN
       \E i \in 1..Len(records) : Stamp(records[i]) = 0
\* the filter of the connector for the call
FilterOf == IF conn = "okta" THEN okta_makeFilterFunc(params) ELSE supersend_makeFilterFunc(params)

ValidWrite == Called /\ params.op = "write" /\ params.ObjectName # "" /\ params.RecordData # NoData
ValidDelete == Called /\ params.op = "delete" /\ params.ObjectName # "" /\ params.RecordId # ""
ConfiguredObjects == {"labels", "senders", "teams", "campaigns", "contacts", "sender-profiles"}
\* the operation has no path for the object
NoWritePath == params.ObjectName \notin ConfiguredObjects \/ (params.RecordId # "" /\ params.ObjectName = "teams")
NoDeletePath == params.ObjectName \notin ConfiguredObjects \/ params.ObjectName \in {"senders", "teams"}
\* the call stopped at the BuildRequest handler: no request was built, nothing was sent
NoRequestSent == pc \in {"validated", "failed"} /\ request = NoRequest /\ response = NoResponse
\* every configuration an object may be given
WritePathConfigs ==
  {writePathConfig(c, u, d, b) : c \in {NoPath, <<"v1", "x">>}, u \in {NoPath, <<"v1", "x">>},
                                 d \in {NoPath, <<"v1", "x">>}, b \in BOOLEAN}

\* C19: a SuperSend write or delete on an object without a path for the operation fails
\* with ErrOperationNotSupportedForObject and no request is sent: an object absent from
\* objectWritePaths, an update of teams, a delete of senders or teams; and a create or
\* update under any configuration whose path for it is empty.
C19_WriteNotSupported ==
  /\ ((ValidWrite /\ NoWritePath) \/ (ValidDelete /\ NoDeletePath)) =>
       /\ NoRequestSent
       /\ pc = "failed" => err = ErrOperationNotSupportedForObject
  /\ \A config \in WritePathConfigs :
       /\ config.createPath = NoPath =>
            buildCreateURL(config) = HTTPErr(ErrOperationNotSupportedForObject)
       /\ (config.updatePath = NoPath /\ Called /\ params.RecordId # "") =>
            buildWriteURL(params, config) = HTTPErr(ErrOperationNotSupportedForObject)

\* a delete of senders, which has create and update paths but no delete path
C19_Witness ==
  /\ ValidDelete /\ params.ObjectName = "senders"
  /\ pc = "failed" /\ err = ErrOperationNotSupportedForObject
  /\ request = NoRequest /\ response = NoResponse

\* the write request of the call has been built
WriteRequestBuilt == ValidWrite /\ pc \in {"requested", "responded", "returned"}

\* C20: a write without RecordId is a POST to the createPath of the object; a write with
\* RecordId goes to updatePath/RecordId, with PATCH for contacts and PUT for every other
\* object; campaigns are created under /v1/auto/campaign and updated under /v1/campaign.
C20_WriteMethodAndPath ==
  WriteRequestBuilt =>
    /\ request.url.base = SuperSendBaseURL
    /\ request.url.query = NoQuery
    /\ IF params.RecordId = ""
         THEN /\ request.method = "POST"
              /\ request.url.path = objectWritePaths[params.ObjectName].createPath
         ELSE /\ request.method = (IF params.ObjectName = "contacts" THEN "PATCH" ELSE "PUT")
              /\ request.url.path = objectWritePaths[params.ObjectName].updatePath \o <<params.RecordId>>
    /\ params.ObjectName = "campaigns" =>
         request.url.path = (IF params.RecordId = "" THEN <<"v1", "auto", "campaign">>
                             ELSE <<"v1", "campaign", params.RecordId>>)

\* an update of a contact is a PATCH to /v2/contacts/<id>
C20_Witness ==
  /\ WriteRequestBuilt /\ params.ObjectName = "contacts" /\ params.RecordId = "id-1"
  /\ request.method = "PATCH"
  /\ request.url.path = <<"v2", "contacts", "id-1">>

(***************************************************************************)
(* Determinism of the cursor builders (checked under SpecCalls).           *)
(***************************************************************************)
\* the query the offset cursor builder gives the next page of the request
NextQuery == nextPageQuery(request, calculateNextOffset(request))

RECURSIVE AloneFrom(_, _, _)
AloneFrom(provider, p, n) ==
  IF n = 0 THEN <<>>
  ELSE LET q == buildReadRequest(provider, p) IN
       IF q.err # "" THEN <<>>
       ELSE LET x == parseReadResponse(provider, p, q.url, Upstream(provider, p.ObjectName, q.url)) IN
            IF x.err # "" THEN <<>>
            ELSE IF x.result.Done THEN <<x.result>>
            ELSE <<x.result>> \o AloneFrom(provider, [p EXCEPT !.NextPage = x.result.NextPage], n - 1)
Alone(r) == AloneFrom(conn.provider, [params[r] EXCEPT !.NextPage = NoPage], PairPages + 1)
IsPrefix(q, full) == Len(q) <= Len(full) /\ q = SubSeq(full, 1, Len(q))
ReadOver(r) == pc[r] = "returned" /\ result[r][Len(result[r])].Done

ReadDone == pc = "returned" /\ result.Done
CallFailed == pc = "failed"

\* C24: against an upstream whose last page announces no next page, a read that feeds each
\* token into the next call ends: unless a call fails, a page result with done true is
\* reached within the pages of the upstream, and from that result on no step is taken, so
\* no further request is built.
C24_LoopTerminates ==
  /\ <>(ReadDone \/ CallFailed)
  /\ [][~ReadDone /\ pages <= MaxPages]_vars

\* a SuperSend read that went through every page of the upstream, resumed by token
C24_Witness ==
  /\ ReadDone /\ conn = "supersend"
  /\ pages = MaxPages /\ pages > 1
  /\ params.NextPage # NoPage /\ request = params.NextPage
  /\ result.NextPage = NoPage

(***************************************************************************)
(* Okta write (checked under SpecOktaWrite).                               *)
(***************************************************************************)
OktaRequestBuilt == pc \in {"requested", "responded", "returned"}
OktaSchemaPath == <<"api", "v1", params.ObjectName>>
\* the response carries an id
ResponseHasId == HasKey(response.body, "id") /\ response.body.members["id"].kind = "string"
ResponseId == response.body.members["id"].text.s
OktaMethodAndPath ==
  OktaRequestBuilt =>
    /\ request.url.base = OktaBaseURL
    /\ request.body = params.RecordData
    /\ IF params.RecordId = ""
         THEN request.method = "POST" /\ request.url.path = OktaSchemaPath
         ELSE /\ request.url.path = OktaSchemaPath \o <<params.RecordId>>
              /\ request.method = (IF params.ObjectName = "users" THEN "POST" ELSE "PUT")

\* C25 as stated: the method and the path as below, and the RecordId of every write result
\* is the id of the response, or the RecordId of the request when the response has none.
C25_AsStated ==
  /\ OktaMethodAndPath
  /\ pc = "returned" =>
       result.RecordId = (IF ResponseHasId THEN ResponseId ELSE params.RecordId)

\* C25 (amended): a write without RecordId is a POST to the schema path of the object; a
\* write with RecordId goes to path/RecordId, as a POST for users and a PUT for every other
\* object; for a response with a body, the RecordId of the result is the id of the body, or
\* the RecordId of the request when the body has no id; for a response without a body the
\* RecordId of the result is empty.
C25_OktaWrite ==
  /\ OktaMethodAndPath
  /\ pc = "returned" =>
       result.RecordId = (IF response.body = NoBody THEN ""
                          ELSE IF ResponseHasId THEN ResponseId ELSE params.RecordId)

\* an update of a group answered without an id: a PUT to path/RecordId, and the RecordId of
\* the request in the result
C25_Witness ==
  /\ pc = "returned" /\ params.ObjectName = "groups" /\ params.RecordId = "id-1"
  /\ request.method = "PUT" /\ request.url.path = <<"api", "v1", "groups", "id-1">>
  /\ response.body # NoBody /\ ~ResponseHasId
  /\ result.RecordId = "id-1"

(***************************************************************************)
(* Progress of the offset cursor (checked under SpecCalls).                *)
(***************************************************************************)
\* the offset a URL asks for: 0 when it carries none or no number
OffsetOf(url) ==
  IF "offset" \in DOMAIN url.query /\ url.query["offset"][1].form = "int" THEN url.query["offset"][1].n ELSE 0

\* C26: whenever the has-more flag is true, the offset of the next-page URL is strictly
\* greater than the offset of the request URL, for first-page requests and for every
\* caller-supplied token, so that the token is never the URL of the page that produced it.
C26_OffsetProgress ==
  SuperSendHasMore =>
    /\ OffsetOf(result.NextPage) > OffsetOf(request)
    /\ result.NextPage # request

(***************************************************************************)
(* The offsets of a read of several pages (checked under SpecOffset).      *)
(***************************************************************************)
\* the limit a URL carries
LimitOf(url) == url.query["limit"][1].n
\* a request for a page is out and not yet answered or answered: it is the request of page
\* number pages (0, 1, 2, ...)
PageRequested == pc \in {"requested", "responded"}

\* C27: in a SuperSend read that starts without a token, the request for page k asks for
\* offset k * limit, page 0 carrying no offset; the token of a page result that is not done
\* asks for the offset that follows the pages returned; and the limit of a request is the
\* limit of the request before it, whatever page size the later calls pass.
C27_OffsetSequence ==
  /\ [](PageRequested =>
          /\ OffsetOf(request) = pages * LimitOf(request)
          /\ ("offset" \in DOMAIN request.query) = (pages > 0))
  /\ []((pc = "returned" /\ ~result.Done) =>
          /\ OffsetOf(result.NextPage) = pages * LimitOf(request)
          /\ LimitOf(result.NextPage) = LimitOf(request))
  /\ [][(pc = "validated" /\ pc' = "requested" /\ pages > 0) => LimitOf(request') = LimitOf(request)]_vars

\* first call with page size 50, third call with page size 150: the request of page 2 asks
\* for limit 50 and offset 100
C27_Witness ==
  /\ PageRequested /\ pages = 2
  /\ params.PageSize = 150
  /\ request.query = ("limit" :> <<IntText(50)>>) @@ ("offset" :> <<IntText(100)>>)

(***************************************************************************)
(* Completeness of a whole read (checked under SpecWhole).                 *)
(***************************************************************************)
RECURSIVE RowsOf(_)
\* the raw records of the rows of a list of page results, in the order returned
RowsOf(results) ==
  IF results = <<>> THEN <<>>
  ELSE RowsOf(SubSeq(results, 1, Len(results) - 1))
       \o [i \in 1..Len(results[Len(results)].Data) |-> results[Len(results)].Data[i].Raw]
WholeReadOver == pc = "returned" /\ result[Len(result)].Done
\* the records of the upstream that carry a timestamp
Stamped == SelectSeq(response.upstream, LAMBDA r : Stamp(r) >= 1)
\* the upstream hands out its records in non-decreasing order of their timestamps
UpstreamSorted == \A i, j \in 1..Len(Stamped) : i < j => Stamp(Stamped[i]) <= Stamp(Stamped[j])
InWindowUpstream == SelectSeq(response.upstream, InClaimedWindow)

\* C28: when the upstream hands out its records in non-decreasing lastUpdated order, the
\* rows an Okta read of a connector-side object returned up to the page that is done are
\* exactly the in-window records of all pages of the upstream, for every window.
C28_ChronologicalComplete ==
  (conn = "okta" /\ WholeReadOver /\ UpstreamSorted) => RowsOf(result) = InWindowUpstream

\* the read stopped on the first of two pages at a record past until, and the page it did
\* not ask for holds no record of the window
C28_Witness ==
  /\ conn = "okta" /\ WholeReadOver /\ UpstreamSorted
  /\ params.Since # 0 /\ params.Until # 0
  /\ Len(response.upstream) = 4 /\ Len(result) = 1
  /\ Len(InWindowUpstream) = 1 /\ RowsOf(result) = InWindowUpstream
  /\ Stamp(response.upstream[1]) = params.Since
  /\ Stamp(response.upstream[2]) >= params.Until

\* C29: a SuperSend read with a time window asks for every page of the upstream, up to the
\* first one with has_more false; a page result whose response has has_more true is not
\* done and carries a token, also when it has no rows; the rows returned over all pages are
\* exactly the in-window records of all pages of the upstream.
C29_UnorderedComplete ==
  (conn = "supersend" /\ (params.Since # 0 \/ params.Until # 0)) =>
    /\ (pc = "returned" /\ BodyHasMore) =>
         ~result[Len(result)].Done /\ result[Len(result)].NextPage # NoPage
    /\ WholeReadOver =>
         /\ Len(result) = UpstreamPages(response.upstream)
         /\ RowsOf(result) = InWindowUpstream

\* a first page without a record of the window, a second page with one
C29_Witness ==
  /\ conn = "supersend" /\ WholeReadOver
  /\ params.Since # 0 /\ params.Until # 0
  /\ Len(response.upstream) = 4 /\ Len(result) = 2
  /\ result[1].Rows = 0 /\ ~result[1].Done
  /\ result[2].Rows = 1
  /\ Stamp(response.upstream[1]) >= params.Until
  /\ RowsOf(result) = InWindowUpstream

(***************************************************************************)
(* Tolerance of the has-more flag (checked under SpecHasMore).             *)
(***************************************************************************)
\* the document says, in so many words, that more records exist
SaysMore(doc) ==
  /\ HasKey(doc, "pagination") /\ IsObject(doc.members["pagination"])
  /\ HasKey(doc.members["pagination"], "has_more")
  /\ doc.members["pagination"].members["has_more"] = JBool(TRUE)
Answered == pc \in {"responded", "returned", "failed"}

\* C30: when the pagination member or its has_more member is missing, null or of another
\* type, the offset cursor builder returns the empty token and no error; a page result of
\* such a response is done with an empty token, a call that fails does so on the records
\* and not on the metadata, and in either case the read ends with that page.
C30_HasMoreTolerance ==
  (Answered /\ ~SaysMore(response.body)) =>
    /\ supersend_makeNextRecordsURL(SuperSendBaseURL, request, response.body) = ReqOk(NoPage)
    /\ pc = "returned" =>
         /\ result.Done /\ result.NextPage = NoPage
         /\ params.NextPage = NoPage => pages = 1
    /\ pc = "failed" => err \in ShapeErrors \cup {ErrTimestampParse}
    /\ ~ENABLED NextPageCall

\* the org object answered with a wrapped single object and no pagination member
C30_Witness ==
  /\ pc = "returned" /\ params.ObjectName = "org"
  /\ response.body = JObj("data" :> MkRecord("supersend", 1, 2) @@ "success" :> JBool(TRUE))
  /\ result.Rows = 1 /\ result.Done /\ result.NextPage = NoPage
====
